---- MODULE Spec2Model ----
(***************************************************************************)
(* A model of the CityGML conversion pipeline of gml-view:                 *)
(*   text path   : src/src/convert.py  (parser.py, geometry.py,            *)
(*                 obj_writer.py)                                          *)
(*   binary path : src/gml2glb.py                                          *)
(*   enrichment  : src/extract_building_metadata.py                        *)
(*   service     : src/server.py                                           *)
(*                                                                         *)
(* Numbers.  Python floats are modelled as fixed-point integers: every     *)
(* coordinate is an integer number of units.  The arithmetic the code      *)
(* does in double precision (subtraction, min, max, the midpoint) is       *)
(* modelled exactly; the two explicit conversions the code applies to a    *)
(* coordinate before it is written are modelled by what they do:           *)
(*   Fmt6 : the text writer's "{:.6f}" (the unit is half of the sixth      *)
(*          decimal, so a written value is an even number of units);       *)
(*   F32  : the binary writer's numpy float32 conversion (24 significant   *)
(*          bits, round to nearest, ties to even).                         *)
(* Source documents carry even coordinates (at most six decimals), so the  *)
(* midpoint (min + max) / 2 is an integer number of units.                 *)
(*                                                                         *)
(* Dictionaries.  A Python dict is modelled as the sequence of its         *)
(* entries [key, val] in insertion order, with unique keys.                *)
(***************************************************************************)
EXTENDS Integers, Sequences, FiniteSets, TLC

VARIABLES
    pc,             \* position of the run
    arg,            \* input of the function under check (pure-function runs)
    ret,            \* its result
    doc,            \* the source document: the sequence of its Building elements
    geometries,     \* text path: CityGMLParser.parse result (dict)
    centered,       \* text path: center_coordinates result (dict)
    offset,         \* the run's offset <<x, y, z>>
    obj,            \* text path: OBJWriter state and the lines of the OBJ file
    buildings_data, \* binary path: parse_citygml result (dict)
    glb,            \* binary path: the locals of create_glb
    gltf,           \* binary path: the scene description handed to write_glb
    file,           \* binary path: the writes made to the GLB file
    metadata,       \* the metadata index written by the run
    next,           \* position of the loop over groups / buildings (1-based)
    input,          \* the input path: "ok", "missing" or "malformed" (not XML)
    exit_status,    \* the exit status of the process, -1 while it runs
    active_models,  \* server.py: the keys of active_models, the registered sessions
    temp_dir,       \* TEMP_DIR: per session id, its directory and the two artifacts
    upload_dir,     \* UPLOAD_DIR: the session ids whose saved upload exists
    requests,       \* per handler thread, the request it serves and its locals
    next_session,   \* the next value uuid.uuid4() returns
    overlapped,     \* history: two requests have been in flight at the same time
    cleaned         \* history: per session id, how often it was reported cleaned

vars == <<pc, arg, ret, doc, geometries, centered, offset, obj,
          buildings_data, glb, gltf, file, metadata, next, input, exit_status,
          active_models, temp_dir, upload_dir, requests, next_session,
          overlapped, cleaned>>

pipeVars == <<pc, arg, ret, doc, geometries, centered, offset, obj,
              buildings_data, glb, gltf, file, metadata, next, input, exit_status>>

serverVars == <<active_models, temp_dir, upload_dir, requests, next_session,
                overlapped, cleaned>>

runVars == <<input, exit_status>>

pureVars == <<arg, ret>>

textVars == <<geometries, centered, obj>>

glbVars == <<buildings_data, glb, gltf, file>>

-----------------------------------------------------------------------------
(* Generic helpers *)

Range(s) == {s[i] : i \in DOMAIN s}

Abs(x) == IF x < 0 THEN -x ELSE x

SetMin(S) == CHOOSE x \in S : \A y \in S : x <= y

SetMax(S) == CHOOSE x \in S : \A y \in S : x >= y

RECURSIVE SumSeq(_)
SumSeq(s) == IF s = <<>> THEN 0 ELSE Head(s) + SumSeq(Tail(s))

RECURSIVE Flatten(_)
Flatten(ss) == IF ss = <<>> THEN <<>> ELSE Head(ss) \o Flatten(Tail(ss))

\* all sequences over S of length 0..n
SeqsUpTo(S, n) == UNION {[1..k -> S] : k \in 0..n}

-----------------------------------------------------------------------------
(* Numbers written to the artifacts *)

\* obj_writer.py "{:.6f}": round to a whole sixth decimal, i.e. to an even
\* number of units; an odd number of units lies exactly half way, and the
\* model resolves it to the even sixth decimal.
Fmt6(v) ==
    LET q == v \div 2
    IN  IF v % 2 = 0 THEN v
        ELSE IF q % 2 = 0 THEN 2 * q ELSE 2 * (q + 1)

RECURSIVE BitLen(_)
BitLen(a) == IF a = 0 THEN 0 ELSE 1 + BitLen(a \div 2)

RECURSIVE Pow2(_)
Pow2(k) == IF k = 0 THEN 1 ELSE 2 * Pow2(k - 1)

F32_MANTISSA == 24

\* gml2glb.py np.array(..., dtype=np.float32): keep 24 significant bits, round
\* to nearest, ties to the even mantissa.
F32(v) ==
    LET a     == Abs(v)
        shift == BitLen(a) - F32_MANTISSA
    IN  IF shift <= 0 THEN v
        ELSE LET ulp == Pow2(shift)
                 q   == a \div ulp
                 r   == a % ulp
                 up  == (2 * r > ulp) \/ (2 * r = ulp /\ q % 2 = 1)
                 m   == IF up THEN q + 1 ELSE q
             IN  IF v < 0 THEN -(m * ulp) ELSE m * ulp

-----------------------------------------------------------------------------
(* Python dicts: entries [key, val] in insertion order *)

DictKeys(d) == [i \in DOMAIN d |-> d[i].key]

DictHas(d, k) == \E i \in DOMAIN d : d[i].key = k

DictGet(d, k) == d[CHOOSE i \in DOMAIN d : d[i].key = k].val

\* d[k] = v : an existing key keeps its position
DictSet(d, k, v) ==
    IF DictHas(d, k)
    THEN [i \in DOMAIN d |-> IF d[i].key = k THEN [key |-> k, val |-> v] ELSE d[i]]
    ELSE Append(d, [key |-> k, val |-> v])

-----------------------------------------------------------------------------
(* geometry.py : GeometryProcessor *)

\* all_vertices of center_coordinates
GeoVertices(all_geometries) ==
    Flatten(Flatten([i \in DOMAIN all_geometries |-> all_geometries[i].val.polygons]))

AxisMin(pts, k) == SetMin({pts[i][k] : i \in DOMAIN pts})

AxisMax(pts, k) == SetMax({pts[i][k] : i \in DOMAIN pts})

\* a midpoint that forgets the division by two
CenterNoHalving(pts) == [k \in 1..3 |-> AxisMin(pts, k) + AxisMax(pts, k)]

\* center = (min_corner + max_corner) / 2.0
Center(pts) == [k \in 1..3 |-> (AxisMin(pts, k) + AxisMax(pts, k)) \div 2]

\* a subtraction that takes the first axis of the centre on every axis
CenterPointSkewed(p, center) == <<p[1] - center[1], p[2] - center[1], p[3] - center[1]>>

CenterPoint(p, center) == <<p[1] - center[1], p[2] - center[2], p[3] - center[3]>>

CenterRecord(geo_data, center) ==
    [element_type |-> geo_data.element_type,
     polygons     |-> [j \in DOMAIN geo_data.polygons |->
                          [k \in DOMAIN geo_data.polygons[j] |->
                              CenterPoint(geo_data.polygons[j][k], center)]],
     metadata     |-> geo_data.metadata]

\* returns [centered, offset]
CenterCoordinates(all_geometries) ==
    LET all_vertices == GeoVertices(all_geometries)
    IN  IF all_vertices = <<>>
        THEN [centered |-> all_geometries, offset |-> <<0, 0, 0>>]
        ELSE LET center == Center(all_vertices)
             IN  [centered |-> [i \in DOMAIN all_geometries |->
                                   [key |-> all_geometries[i].key,
                                    val |-> CenterRecord(all_geometries[i].val, center)]],
                  offset   |-> center]

\* the variant without the closed-ring test (a plausible slip)
TriangulateNoDedup(vertices) ==
    LET n == Len(vertices)
    IN  IF n < 3 THEN <<>> ELSE [i \in 1..(n - 2) |-> <<0, i, i + 1>>]

\* returns 0-based index triples
GeoTriangulate(vertices) ==
    LET n0 == Len(vertices)
        vs == IF n0 > 1 /\ vertices[1] = vertices[n0]
              THEN SubSeq(vertices, 1, n0 - 1)
              ELSE vertices
        n  == Len(vs)
    IN  IF n < 3 THEN <<>> ELSE [i \in 1..(n - 2) |-> <<0, i, i + 1>>]

\* the cross product of the two edges; the division by its Euclidean length
\* has no fixed-point value and is left out (a zero vector stays zero)
CalculateNormal(v0, v1, v2) ==
    LET e1 == <<v1[1] - v0[1], v1[2] - v0[2], v1[3] - v0[3]>>
        e2 == <<v2[1] - v0[1], v2[2] - v0[2], v2[3] - v0[3]>>
    IN  <<e1[2] * e2[3] - e1[3] * e2[2],
          e1[3] * e2[1] - e1[1] * e2[3],
          e1[1] * e2[2] - e1[2] * e2[1]>>

GetMaterialForType(element_type) ==
    CASE element_type = "RoofSurface"    -> "roof"
      [] element_type = "WallSurface"    -> "wall"
      [] element_type = "GroundSurface"  -> "ground"
      [] element_type = "ClosureSurface" -> "closure"
      [] element_type = "Building"       -> "building"
      [] OTHER                           -> "default"

-----------------------------------------------------------------------------
(* The source document                                                     *)
(*   document : sequence of bldg:Building elements, in document order      *)
(*   Building : [id, name, description, surfaces]                          *)
(*   surface  : [tag, id, name, description, polygons]                     *)
(*              id = "" : no gml:id attribute; name / description = "" :   *)
(*              no gml:name / gml:description child                        *)
(*   polygon  : its exterior gml:LinearRing, [pos, posList]                *)
(*              pos     : the gml:pos children, each its token sequence    *)
(*              posList : the tokens of gml:posList (<<>> : absent/empty)  *)
(*   token    : [num, val]   num = FALSE : text that float() rejects       *)

Tok(v) == [num |-> TRUE, val |-> v]

BadTok == [num |-> FALSE, val |-> 0]

PointToks(p) == <<Tok(p[1]), Tok(p[2]), Tok(p[3])>>

\* a ring given as a packed posList / as individual pos elements
AsPosList(points) == [pos |-> <<>>, posList |-> Flatten([i \in DOMAIN points |-> PointToks(points[i])])]

AsPos(points) == [pos |-> [i \in DOMAIN points |-> PointToks(points[i])], posList |-> <<>>]

AllSurfaces(document) == Flatten([i \in DOMAIN document |-> document[i].surfaces])

-----------------------------------------------------------------------------
(* parser.py : CityGMLParser *)

TEXT_SURFACE_TYPES == <<"RoofSurface", "WallSurface", "GroundSurface", "ClosureSurface">>

\* float(a), float(b), float(c) succeed
NumericTriple(toks, i) == toks[i].num /\ toks[i + 1].num /\ toks[i + 2].num

TripleAt(toks, i) == <<toks[i].val, toks[i + 1].val, toks[i + 2].val>>

\* the loop over gml:pos : short or non-numeric elements are skipped
RECURSIVE PosCoordinates(_)
PosCoordinates(pos_elements) ==
    IF pos_elements = <<>> THEN <<>>
    ELSE LET coords == Head(pos_elements)
             here   == IF Len(coords) >= 3 /\ NumericTriple(coords, 1)
                       THEN <<TripleAt(coords, 1)>> ELSE <<>>
         IN  here \o PosCoordinates(Tail(pos_elements))

\* the loop over gml:posList in steps of three, from the 1-based position i
RECURSIVE PosListCoordinates(_, _)
PosListCoordinates(coords, i) ==
    IF i > Len(coords) THEN <<>>
    ELSE LET here == IF i + 2 <= Len(coords) /\ NumericTriple(coords, i)
                     THEN <<TripleAt(coords, i)>> ELSE <<>>
         IN  here \o PosListCoordinates(coords, i + 3)

ExtractPolygonCoordinates(ring) ==
    PosCoordinates(ring.pos) \o PosListCoordinates(ring.posList, 1)

\* coordinates of every polygon, the empty ones dropped
RECURSIVE ExtractPolygons(_)
ExtractPolygons(rings) ==
    IF rings = <<>> THEN <<>>
    ELSE LET coords == ExtractPolygonCoordinates(Head(rings))
         IN  (IF coords # <<>> THEN <<coords>> ELSE <<>>) \o ExtractPolygons(Tail(rings))

ElementMetadata(name, description) ==
    (IF name = "" THEN <<>> ELSE <<[key |-> "name", val |-> name]>>)
        \o (IF description = "" THEN <<>>
            ELSE <<[key |-> "description", val |-> description]>>)

\* _extract_geometry of an element with the given tag, gml:name,
\* gml:description and descendant polygons
ExtractGeometry(tag, name, description, rings) ==
    [element_type |-> tag,
     polygons     |-> ExtractPolygons(rings),
     metadata     |-> ElementMetadata(name, description)]

BuildingRings(building) ==
    Flatten([i \in DOMAIN building.surfaces |-> building.surfaces[i].polygons])

RECURSIVE ParseBuildings(_, _)
ParseBuildings(buildings, geoms) ==
    IF buildings = <<>> THEN geoms
    ELSE LET building == Head(buildings)
             geo_data == ExtractGeometry("Building", building.name, building.description,
                                         BuildingRings(building))
         IN  ParseBuildings(Tail(buildings),
                 IF building.id # "" /\ geo_data.polygons # <<>>
                 THEN DictSet(geoms, building.id, geo_data)
                 ELSE geoms)

RECURSIVE ParseSurfaces(_, _, _)
ParseSurfaces(surfaces, surface_type, geoms) ==
    IF surfaces = <<>> THEN geoms
    ELSE LET surface  == Head(surfaces)
             geo_data == ExtractGeometry(surface_type, surface.name, surface.description,
                                         surface.polygons)
         IN  ParseSurfaces(Tail(surfaces), surface_type,
                 IF /\ surface.tag = surface_type
                    /\ surface.id # ""
                    /\ geo_data.polygons # <<>>
                 THEN DictSet(geoms, surface.id, geo_data)
                 ELSE geoms)

RECURSIVE ParseSurfaceTypes(_, _, _)
ParseSurfaceTypes(document, surface_types, geoms) ==
    IF surface_types = <<>> THEN geoms
    ELSE ParseSurfaceTypes(document, Tail(surface_types),
             ParseSurfaces(AllSurfaces(document), Head(surface_types), geoms))

\* CityGMLParser.parse
TextParse(document) ==
    ParseSurfaceTypes(document, TEXT_SURFACE_TYPES, ParseBuildings(document, <<>>))

-----------------------------------------------------------------------------
(* gml2glb.py : parse_citygml, calculate_offset, triangulate_polygon *)

GLB_SURFACE_TYPES == <<"RoofSurface", "WallSurface", "GroundSurface",
                       "ClosureSurface", "FloorSurface", "CeilingSurface">>

AllNumeric(toks) == \A i \in DOMAIN toks : toks[i].num

\* list(map(float, ...)) raises ValueError, or coords[i+2] raises IndexError
RingRaises(ring) ==
    IF ring.posList # <<>>
    THEN ~AllNumeric(ring.posList) \/ Len(ring.posList) % 3 # 0
    ELSE \E i \in DOMAIN ring.pos : ~AllNumeric(ring.pos[i])

\* the points of a ring that does not raise: posList first, else the pos elements
RingPoints(ring) ==
    IF ring.posList # <<>>
    THEN [i \in 1..(Len(ring.posList) \div 3) |-> TripleAt(ring.posList, 3 * i - 2)]
    ELSE PosCoordinates(ring.pos)

\* a filter that lets two-point loops through
KeepRingFrom2(points) == Len(points) >= 2

\* "if len(points) < 3: continue"
KeepRing(points) == Len(points) >= 3

RECURSIVE SurfaceEntries(_, _)
SurfaceEntries(rings, surface_type) ==
    IF rings = <<>> THEN <<>>
    ELSE LET points == RingPoints(Head(rings))
         IN  (IF KeepRing(points)
              THEN <<[type |-> surface_type, points |-> points]>>
              ELSE <<>>) \o SurfaceEntries(Tail(rings), surface_type)

\* the surfaces of one Building element of one type, in document order
RECURSIVE SurfacesOfType(_, _)
SurfacesOfType(surfaces, surface_type) ==
    IF surfaces = <<>> THEN <<>>
    ELSE (IF Head(surfaces).tag = surface_type
          THEN SurfaceEntries(Head(surfaces).polygons, surface_type)
          ELSE <<>>) \o SurfacesOfType(Tail(surfaces), surface_type)

\* everything one Building element appends to building_info['surfaces']
BuildingSurfaces(building) ==
    Flatten([t \in DOMAIN GLB_SURFACE_TYPES |->
                SurfacesOfType(building.surfaces, GLB_SURFACE_TYPES[t])])

\* Python's None
PyNone == "<None>"

\* building.find('.//gml:description'): the first gml:description of the
\* Building element's subtree, its own child before those of its surfaces
RECURSIVE FirstDescription(_)
FirstDescription(descriptions) ==
    IF descriptions = <<>> THEN ""
    ELSE IF Head(descriptions) # "" THEN Head(descriptions)
    ELSE FirstDescription(Tail(descriptions))

BuildingDescription(building) ==
    FirstDescription(<<building.description>>
        \o [i \in DOMAIN building.surfaces |-> building.surfaces[i].description])

\* of the building attributes the description is carried; measuredHeight and
\* the storeys are handled by the same pattern and are left out
RECURSIVE GlbParseBuildings(_, _)
GlbParseBuildings(buildings, data) ==
    IF buildings = <<>> THEN data
    ELSE LET building == Head(buildings)
             info     == IF DictHas(data, building.id)
                         THEN DictGet(data, building.id)
                         ELSE [id |-> building.id, description |-> PyNone,
                               surfaces |-> <<>>]
             desc     == BuildingDescription(building)
             info1    == IF desc # "" /\ info.description = PyNone
                         THEN [info EXCEPT !.description = desc]
                         ELSE info
             info2    == [info1 EXCEPT !.surfaces = @ \o BuildingSurfaces(building)]
         IN  GlbParseBuildings(Tail(buildings),
                 IF building.id = "" THEN data
                 ELSE DictSet(data, building.id, info2))

\* parse_citygml ends with an uncaught exception
ParseCitygmlRaises(document) ==
    \E b \in DOMAIN document :
        /\ document[b].id # ""
        /\ \E s \in DOMAIN document[b].surfaces :
              /\ document[b].surfaces[s].tag \in Range(GLB_SURFACE_TYPES)
              /\ \E r \in DOMAIN document[b].surfaces[s].polygons :
                    RingRaises(document[b].surfaces[s].polygons[r])

ParseCitygml(document) == GlbParseBuildings(document, <<>>)

DataPoints(data) ==
    Flatten(Flatten([i \in DOMAIN data |->
        [j \in DOMAIN data[i].val.surfaces |-> data[i].val.surfaces[j].points]]))

CalculateOffset(data) ==
    LET all_points == DataPoints(data)
    IN  IF all_points = <<>> THEN <<0, 0, 0>>
        ELSE [k \in 1..3 |-> AxisMin(all_points, k)]

\* a fan that stops after its first triangle
GlbTriangulateFirstOnly(points) ==
    IF Len(points) < 3 THEN <<>> ELSE <<<<points[1], points[2], points[3]>>>>

\* returns point triples; no closed-ring test here
GlbTriangulate(points) ==
    IF Len(points) < 3 THEN <<>>
    ELSE [i \in 1..(Len(points) - 2) |-> <<points[1], points[i + 1], points[i + 2]>>]

-----------------------------------------------------------------------------
(* gml2glb.py : create_glb, write_glb, write_metadata *)

\* (4 - (n % 4)) % 4
Pad4(n) == (4 - (n % 4)) % 4

\* "p[0] - offset[0], p[1] - offset[1], p[2] - offset[2]" with a wrong axis
OffsetPointSkewed(p, off) == <<p[1] - off[1], p[2] - off[1], p[3] - off[3]>>

OffsetPoint(p, off) == <<p[1] - off[1], p[2] - off[2], p[3] - off[3]>>

\* the triangles of one surface, offset applied
SurfaceTriangles(surface, off) ==
    GlbTriangulate([i \in DOMAIN surface.points |-> OffsetPoint(surface.points[i], off)])

\* a chunk of buffers_data: typed values (kind "f32", "u32", 4 bytes each) or
\* padding bytes (kind "pad")
ChunkBytes(chunk) == IF chunk.kind = "pad" THEN Len(chunk.vals) ELSE 4 * Len(chunk.vals)

PadChunk(padding) ==
    IF padding # 0 THEN <<[kind |-> "pad", vals |-> [i \in 1..padding |-> 0]]>> ELSE <<>>

\* min / max of all_vertices[k::3]  (k is 0-based, all_vertices is flat)
StrideSet(flat, k) == {flat[i] : i \in {j \in DOMAIN flat : (j - 1) % 3 = k}}

EmptyGlb ==
    [meshes |-> <<>>, accessors |-> <<>>, buffer_views |-> <<>>,
     buffers_data |-> <<>>, current_byte_offset |-> 0]

\* a running offset that forgets the index buffer's length
AfterIndexBufferStuck(cur, index_buffer) == cur

\* current_byte_offset += len(index_buffer)
AfterIndexBuffer(cur, index_buffer) == cur + ChunkBytes(index_buffer)

\* one pass of the "for building_id, building_info" loop of create_glb
CreateMesh(g, building_id, building_info, off) ==
    LET tris          == Flatten([j \in DOMAIN building_info.surfaces |->
                             SurfaceTriangles(building_info.surfaces[j], off)])
        all_vertices  == Flatten(Flatten([t \in DOMAIN tris |-> tris[t]]))
        all_indices   == [n \in 1..(3 * Len(tris)) |-> 3 * ((n - 1) \div 3) + ((n - 1) % 3)]
        vertex_buffer == [kind |-> "f32",
                          vals |-> [i \in DOMAIN all_vertices |-> F32(all_vertices[i])]]
        vertex_view   == [buffer |-> 0, byteOffset |-> g.current_byte_offset,
                          byteLength |-> ChunkBytes(vertex_buffer), target |-> 34962]
        cur1          == g.current_byte_offset + ChunkBytes(vertex_buffer)
        padding1      == Pad4(cur1)
        cur2          == cur1 + padding1
        vertex_acc    == [bufferView |-> Len(g.buffer_views), byteOffset |-> 0,
                          componentType |-> 5126, count |-> Len(all_vertices) \div 3,
                          type |-> "VEC3",
                          min |-> [k \in 1..3 |-> SetMin(StrideSet(all_vertices, k - 1))],
                          max |-> [k \in 1..3 |-> SetMax(StrideSet(all_vertices, k - 1))]]
        index_buffer  == [kind |-> "u32", vals |-> all_indices]
        index_view    == [buffer |-> 0, byteOffset |-> cur2,
                          byteLength |-> ChunkBytes(index_buffer), target |-> 34963]
        cur3          == AfterIndexBuffer(cur2, index_buffer)
        padding2      == Pad4(cur3)
        cur4          == cur3 + padding2
        index_acc     == [bufferView |-> Len(g.buffer_views) + 1, byteOffset |-> 0,
                          componentType |-> 5125, count |-> Len(all_indices),
                          type |-> "SCALAR"]
        mesh          == [name |-> building_id,
                          primitives |-> <<[attributes |-> [POSITION |-> Len(g.accessors)],
                                            indices |-> Len(g.accessors) + 1,
                                            mode |-> 4]>>]
    IN  IF building_info.surfaces = <<>> \/ all_vertices = <<>>
        THEN g
        ELSE [meshes              |-> Append(g.meshes, mesh),
              accessors           |-> g.accessors \o <<vertex_acc, index_acc>>,
              buffer_views        |-> g.buffer_views \o <<vertex_view, index_view>>,
              buffers_data        |-> g.buffers_data \o <<vertex_buffer>> \o PadChunk(padding1)
                                         \o <<index_buffer>> \o PadChunk(padding2),
              current_byte_offset |-> cur4]

\* len(b''.join(buffers_data))
CombinedLength(buffers_data) ==
    SumSeq([i \in DOMAIN buffers_data |-> ChunkBytes(buffers_data[i])])

\* nodes that all point at the first mesh
SceneNodesFirstMesh(meshes) ==
    [i \in DOMAIN meshes |-> [mesh |-> 0, name |-> meshes[i].name]]

\* [{'mesh': i, 'name': meshes[i]['name']} for i in range(len(meshes))]
SceneNodes(meshes) ==
    [i \in DOMAIN meshes |-> [mesh |-> i - 1, name |-> meshes[i].name]]

\* the scene description handed to write_glb
GltfJson(g) ==
    [scene       |-> 0,
     scenes      |-> <<[nodes |-> [i \in DOMAIN g.meshes |-> i - 1]]>>,
     nodes       |-> SceneNodes(g.meshes),
     meshes      |-> g.meshes,
     accessors   |-> g.accessors,
     bufferViews |-> g.buffer_views,
     buffers     |-> <<[byteLength |-> CombinedLength(g.buffers_data)]>>]

GLB_MAGIC == 1179937895

GLB_VERSION == 2

CHUNK_JSON == 1313821514

CHUNK_BIN == 5130562

\* a header length that leaves out the two chunk headers
TotalLengthNoChunkHeaders(json_bytes, binary_buffer) == 12 + json_bytes + binary_buffer

\* total_length = 12 + 8 + len(json_bytes) + 8 + len(binary_buffer)
TotalLength(json_bytes, binary_buffer) == 12 + 8 + json_bytes + 8 + binary_buffer

\* the writes of write_glb, in order, for a scene description of json_len
\* bytes and a payload of bin_len bytes: [name, size in bytes, value]; the
\* value of a chunk body is the number of padding bytes at its end
WriteGlb(json_len, bin_len) ==
    LET json_padding  == Pad4(json_len)
        json_bytes    == json_len + json_padding
        bin_padding   == Pad4(bin_len)
        binary_buffer == bin_len + bin_padding
    IN  << [name |-> "magic",       size |-> 4, value |-> GLB_MAGIC],
           [name |-> "version",     size |-> 4, value |-> GLB_VERSION],
           [name |-> "length",      size |-> 4, value |-> TotalLength(json_bytes, binary_buffer)],
           [name |-> "json_length", size |-> 4, value |-> json_bytes],
           [name |-> "json_type",   size |-> 4, value |-> CHUNK_JSON],
           [name |-> "json_bytes",  size |-> json_bytes, value |-> json_padding],
           [name |-> "bin_length",  size |-> 4, value |-> binary_buffer],
           [name |-> "bin_type",    size |-> 4, value |-> CHUNK_BIN],
           [name |-> "bin_bytes",   size |-> binary_buffer, value |-> bin_padding] >>

RECURSIVE SurfaceTypeCounts(_, _)
SurfaceTypeCounts(surfaces, counts) ==
    IF surfaces = <<>> THEN counts
    ELSE LET t == Head(surfaces).type
         IN  SurfaceTypeCounts(Tail(surfaces),
                 DictSet(counts, t, IF DictHas(counts, t) THEN DictGet(counts, t) + 1 ELSE 1))

\* write_metadata; building_info always has the key 'description', so the
\* default of .get() is never used
WriteMetadata(data, off) ==
    [offset        |-> off,
     total_objects |-> Len(data),
     objects       |-> [i \in DOMAIN data |->
         [key |-> data[i].key,
          val |-> [element_type  |-> "Building",
                   polygon_count |-> Len(data[i].val.surfaces),
                   metadata      |-> <<[key |-> "name", val |-> data[i].key],
                                       [key |-> "description",
                                        val |-> data[i].val.description],
                                       [key |-> "surfaceTypes",
                                        val |-> SurfaceTypeCounts(data[i].val.surfaces, <<>>)]>>]]]]

-----------------------------------------------------------------------------
(* obj_writer.py : OBJWriter *)

\* the lines of an OBJ file are records [t, ...]:
\*   "#" text | "mtllib" | "g" name | "usemtl" name | "v" p | "vn" n | "f" v n

\* "v {x:.6f} {y:.6f} {z:.6f}"
VLine(vertex) == [t |-> "v", p |-> <<Fmt6(vertex[1]), Fmt6(vertex[2]), Fmt6(vertex[3])>>]

PolygonNormals(polygon) ==
    LET triangles == GeoTriangulate(polygon)
    IN  [i \in DOMAIN triangles |->
            [t |-> "vn", n |-> CalculateNormal(polygon[triangles[i][1] + 1],
                                               polygon[triangles[i][2] + 1],
                                               polygon[triangles[i][3] + 1])]]

PolygonFaces(polygon, base) ==
    LET triangles == GeoTriangulate(polygon)
    IN  [i \in DOMAIN triangles |->
            <<base + triangles[i][1], base + triangles[i][2], base + triangles[i][3]>>]

\* "if len(polygon) < 3: continue"
WritesPolygon(polygon) == Len(polygon) >= 3

\* the "for polygon in polygons" loop of _write_group: the v and vn lines
\* written, group_faces and len(group_vertices)
RECURSIVE GroupBody(_, _, _)
GroupBody(polygons, vertex_count, vertex_offset) ==
    IF polygons = <<>> THEN [lines |-> <<>>, faces |-> <<>>, nverts |-> 0]
    ELSE LET polygon == Head(polygons)
         IN  IF ~WritesPolygon(polygon)
             THEN GroupBody(Tail(polygons), vertex_count, vertex_offset)
             ELSE LET more == GroupBody(Tail(polygons), vertex_count,
                                        vertex_offset + Len(polygon))
                  IN  [lines  |-> [k \in DOMAIN polygon |-> VLine(polygon[k])]
                                     \o PolygonNormals(polygon) \o more.lines,
                       faces  |-> PolygonFaces(polygon, vertex_count + vertex_offset)
                                     \o more.faces,
                       nverts |-> Len(polygon) + more.nverts]

\* a group writer whose normal indices restart at 1 in every group
WriteGroupLocalNormals(w, gml_id, geo_data) ==
    LET body == GroupBody(geo_data.polygons, w.vertex_count, 0)
    IN  [w EXCEPT
           !.lines = @ \o <<[t |-> "#", text |-> <<gml_id, geo_data.element_type>>],
                            [t |-> "g", name |-> gml_id],
                            [t |-> "usemtl", name |-> GetMaterialForType(geo_data.element_type)]>>
                       \o body.lines
                       \o [i \in DOMAIN body.faces |->
                              [t |-> "f", v |-> body.faces[i], n |-> i]],
           !.vertex_count = @ + body.nverts,
           !.normal_count = @ + Len(body.faces)]

\* _write_group on the writer state w
WriteGroup(w, gml_id, geo_data) ==
    LET body == GroupBody(geo_data.polygons, w.vertex_count, 0)
    IN  [w EXCEPT
           !.lines = @ \o <<[t |-> "#", text |-> <<gml_id, geo_data.element_type>>],
                            [t |-> "g", name |-> gml_id],
                            [t |-> "usemtl", name |-> GetMaterialForType(geo_data.element_type)]>>
                       \o body.lines
                       \o [i \in DOMAIN body.faces |->
                              [t |-> "f", v |-> body.faces[i], n |-> w.normal_count + (i - 1)]],
           !.vertex_count = @ + body.nverts,
           !.normal_count = @ + Len(body.faces)]

\* OBJWriter.__init__, no file opened yet
NewWriter == [lines |-> <<>>, vertex_count |-> 0, normal_count |-> 0, mtl |-> FALSE]

\* a writer whose counters start at 0
OpenObjZeroBased(geoms, off) ==
    [lines |-> <<[t |-> "#", text |-> <<"CityGML to OBJ Conversion">>],
                 [t |-> "#", text |-> <<"Total objects", Len(geoms)>>],
                 [t |-> "#", text |-> <<"Center offset", off>>],
                 [t |-> "mtllib"]>>,
     vertex_count |-> 0, normal_count |-> 0, mtl |-> TRUE]

\* write_single_obj up to the loop over the groups
OpenObj(geoms, off) ==
    [lines |-> <<[t |-> "#", text |-> <<"CityGML to OBJ Conversion">>],
                 [t |-> "#", text |-> <<"Total objects", Len(geoms)>>],
                 [t |-> "#", text |-> <<"Center offset", off>>],
                 [t |-> "mtllib"]>>,
     vertex_count |-> 1, normal_count |-> 1, mtl |-> TRUE]

\* a count that leaves out the loops of fewer than three points
PolygonCountValidOnly(polygons) ==
    Cardinality({j \in DOMAIN polygons : Len(polygons[j]) >= 3})

\* 'polygon_count': len(geo_data['polygons'])
PolygonCount(polygons) == Len(polygons)

\* _write_metadata
ObjMetadata(geoms, off) ==
    [offset        |-> off,
     total_objects |-> Len(geoms),
     objects       |-> [i \in DOMAIN geoms |->
         [key |-> geoms[i].key,
          val |-> [element_type  |-> geoms[i].val.element_type,
                   polygon_count |-> PolygonCount(geoms[i].val.polygons),
                   metadata      |-> geoms[i].val.metadata]]]]

NoMetadata == [offset |-> <<0, 0, 0>>, total_objects |-> -1, objects |-> <<>>]

-----------------------------------------------------------------------------
(* Initial values of the variables a run does not use *)

NoGltf == [scene |-> 0, scenes |-> <<>>, nodes |-> <<>>, meshes |-> <<>>,
           accessors |-> <<>>, bufferViews |-> <<>>, buffers |-> <<>>]

\* the handler threads of the service
Handlers == {"t1", "t2"}

MaxSessions == 2

SessionIds == 1..MaxSessions

\* no session directory
NoDir == [exists |-> FALSE, glb |-> "missing", metadata |-> "missing"]

\* a handler thread that serves no request; after a request, kind, session_id,
\* outcome, success, status and count keep what the request ended with
NoRequest ==
    [kind |-> "none", pc |-> "idle", session_id |-> 0, outcome |-> "none",
     success |-> FALSE, status |-> 0, todo |-> <<>>, count |-> 0]

ServerIdle ==
    /\ active_models = {}
    /\ temp_dir = [id \in SessionIds |-> NoDir]
    /\ upload_dir = {}
    /\ requests = [h \in Handlers |-> NoRequest]
    /\ next_session = 1
    /\ overlapped = FALSE
    /\ cleaned = [id \in SessionIds |-> 0]

PureIdle == arg = <<>> /\ ret = <<>>

PipeIdle ==
    /\ geometries = <<>>
    /\ centered = <<>>
    /\ offset = <<0, 0, 0>>
    /\ obj = NewWriter
    /\ buildings_data = <<>>
    /\ glb = EmptyGlb
    /\ gltf = NoGltf
    /\ file = <<>>
    /\ metadata = NoMetadata
    /\ next = 1
    /\ exit_status = -1

-----------------------------------------------------------------------------
(* Run of triangulate_polygon on an arbitrary loop *)

MaxRingLen == 5

TriPoints == {<<0, 0, 0>>, <<2, 0, 0>>, <<2, 2, 0>>}

InitTri ==
    /\ pc = "tri_call"
    /\ arg \in SeqsUpTo(TriPoints, MaxRingLen)
    /\ ret = <<>>
    /\ doc = <<>>
    /\ input = "ok"
    /\ PipeIdle
    /\ ServerIdle

TriangulateCall ==
    /\ pc = "tri_call"
    /\ ret' = GeoTriangulate(arg)
    /\ pc' = "tri_done"
    /\ UNCHANGED <<serverVars, runVars, arg, doc, textVars, glbVars, offset, metadata, next>>

NextTri == TriangulateCall

SpecTri == InitTri /\ [][NextTri]_vars

-----------------------------------------------------------------------------
(* Run of write_glb on an arbitrary scene description and payload *)

MaxJsonLen == 9

MaxBinLen == 9

InitWriteGlb ==
    /\ pc = "write_glb_call"
    \* json.dumps of a dict is at least "{}"
    /\ arg \in [json_len : 2..MaxJsonLen, bin_len : 0..MaxBinLen]
    /\ ret = <<>>
    /\ doc = <<>>
    /\ input = "ok"
    /\ PipeIdle
    /\ ServerIdle

WriteGlbCall ==
    /\ pc = "write_glb_call"
    /\ file' = WriteGlb(arg.json_len, arg.bin_len)
    /\ pc' = "write_glb_done"
    /\ UNCHANGED <<serverVars, runVars, pureVars, doc, textVars, buildings_data, glb, gltf, offset,
                   metadata, next>>

NextWriteGlb == WriteGlbCall

SpecWriteGlb == InitWriteGlb /\ [][NextWriteGlb]_vars

-----------------------------------------------------------------------------
(* Polygon loops used by the runs below *)

Square == <<<<0, 0, 0>>, <<4, 0, 0>>, <<4, 0, 6>>, <<0, 0, 6>>>>

Tri == <<<<0, 0, 0>>, <<4, 0, 0>>, <<0, 2, 0>>>>

ClosedTri == <<<<2, 4, 8>>, <<6, 4, 8>>, <<2, 8, 8>>, <<2, 4, 8>>>>

Tri2 == <<<<2, 4, 0>>, <<6, 4, 0>>, <<2, 6, 0>>>>

TwoPts == <<<<0, 0, 0>>, <<4, 4, 4>>>>

\* its centred x coordinate, 2^25 + 2, is one that float32 cannot hold
BigTri == <<<<2, 4, 0>>, <<33554440, 4, 0>>, <<2, 6, 0>>>>

-----------------------------------------------------------------------------
(* Run of center_coordinates on an arbitrary geometry map, and again on its
   result *)

RecordChoices ==
    { [element_type |-> "Building", polygons |-> <<Square>>,
       metadata |-> <<[key |-> "name", val |-> "Hall"]>>],
      [element_type |-> "WallSurface", polygons |-> <<TwoPts, Tri2>>, metadata |-> <<>>],
      [element_type |-> "RoofSurface", polygons |-> <<ClosedTri>>, metadata |-> <<>>],
      \* no polygons
      [element_type |-> "WallSurface", polygons |-> <<>>, metadata |-> <<>>] }

MaxRecords == 3

\* the maps of up to MaxRecords records, keyed "1", "2", ...
GeometryMaps ==
    {[i \in DOMAIN rs |-> [key |-> ToString(i), val |-> rs[i]]] :
        rs \in SeqsUpTo(RecordChoices, MaxRecords)}

InitCenter ==
    /\ pc = "center_call"
    /\ arg \in GeometryMaps
    /\ ret = <<>>
    /\ doc = <<>>
    /\ input = "ok"
    /\ PipeIdle
    /\ ServerIdle

CenterCall ==
    /\ pc = "center_call"
    /\ ret' = <<CenterCoordinates(arg)>>
    /\ pc' = "center_done"
    /\ UNCHANGED <<serverVars, runVars, arg, doc, textVars, glbVars, offset, metadata, next>>

\* center_coordinates applied to the map the first call returned
CenterAgainCall ==
    /\ pc = "center_done"
    /\ ret' = Append(ret, CenterCoordinates(ret[1].centered))
    /\ pc' = "center_again_done"
    /\ UNCHANGED <<serverVars, runVars, arg, doc, textVars, glbVars, offset, metadata, next>>

NextCenter == CenterCall \/ CenterAgainCall

SpecCenter == InitCenter /\ [][NextCenter]_vars

-----------------------------------------------------------------------------
(* The documents of the conversion runs *)

Surf(tag, id, name, polygons) ==
    [tag |-> tag, id |-> id, name |-> name, description |-> "", polygons |-> polygons]

SurfDesc(tag, id, name, description, polygons) ==
    [tag |-> tag, id |-> id, name |-> name, description |-> description,
     polygons |-> polygons]

Bld(id, name, surfaces) ==
    [id |-> id, name |-> name, description |-> "", surfaces |-> surfaces]

BldDesc(id, name, description, surfaces) ==
    [id |-> id, name |-> name, description |-> description, surfaces |-> surfaces]

\* a packed list of ten tokens: a triple with a non-numeric token, the three
\* points of Tri2, and one token left over
BrokenPosList ==
    <<Tok(0), BadTok, Tok(0)>> \o AsPosList(Tri2).posList \o <<Tok(8)>>

BuildingChoices ==
    { BldDesc("b1", "Hall", "Town hall",
              <<Surf("WallSurface", "w1", "", <<AsPosList(Square)>>)>>),
      \* no gml:description of its own, one in a surface
      Bld("b2", "", <<Surf("RoofSurface", "r1", "", <<AsPosList(ClosedTri)>>),
                      SurfDesc("WallSurface", "w2", "West", "west wall",
                               <<AsPosList(TwoPts), AsPos(Tri2)>>)>>),
      \* a second Building element with the identifier of the first
      BldDesc("b1", "", "Annex", <<Surf("GroundSurface", "g1", "", <<AsPos(Tri)>>)>>),
      \* a ring that carries both encodings
      Bld("b8", "", <<Surf("WallSurface", "w8", "",
                           <<[pos |-> AsPos(Tri).pos, posList |-> AsPosList(Tri2).posList],
                             AsPosList(Square)>>)>>),
      \* a non-numeric token in a gml:pos
      Bld("b9", "", <<Surf("WallSurface", "w9", "",
                           <<[pos |-> <<PointToks(<<0, 0, 0>>), <<Tok(2), BadTok, Tok(0)>>,
                                        PointToks(<<2, 2, 0>>), PointToks(<<0, 2, 0>>)>>,
                              posList |-> <<>>]>>)>>),
      \* a malformed packed list, then a sound polygon
      Bld("b7", "", <<Surf("WallSurface", "w6", "",
                           <<[pos |-> <<>>, posList |-> BrokenPosList]>>),
                      Surf("RoofSurface", "r7", "", <<AsPos(Tri)>>)>>),
      \* no gml:id
      Bld("", "", <<Surf("WallSurface", "w3", "", <<AsPosList(Tri)>>)>>),
      \* no surfaces
      Bld("b3", "", <<>>),
      \* only a two-point loop
      Bld("b4", "", <<Surf("WallSurface", "w4", "", <<AsPosList(TwoPts)>>)>>),
      \* a tag outside the text parser's list, and a surface without gml:id
      Bld("b5", "", <<Surf("FloorSurface", "f1", "", <<AsPosList(Tri)>>),
                      Surf("WallSurface", "", "", <<AsPos(Square)>>)>>) }

\* documents for the binary run only: large coordinates
GlbOnlyChoices ==
    { Bld("b6", "", <<Surf("WallSurface", "w5", "", <<AsPosList(BigTri)>>)>>) }

MaxBuildings == 3

TextDocuments == SeqsUpTo(BuildingChoices, MaxBuildings)

GlbDocuments == SeqsUpTo(BuildingChoices \cup GlbOnlyChoices, MaxBuildings)

\* the byte length of json.dumps(gltf_json) is not computed: any length of
\* these, one per residue modulo 4
JsonLens == 100..103

-----------------------------------------------------------------------------
(* The conversion runs: convert.py main (text) and gml2glb.py main (binary) *)

\* the input path names a readable document, or no file, or a file that is
\* not well-formed XML (no document then)
Init ==
    /\ \/ pc = "text_start" /\ input = "ok" /\ doc \in TextDocuments
       \/ pc = "glb_start" /\ input = "ok" /\ doc \in GlbDocuments
       \/ pc \in {"text_start", "glb_start"} /\ input \in {"missing", "malformed"}
             /\ doc = <<>>
    /\ PureIdle
    /\ PipeIdle
    /\ ServerIdle

\* convert.py: "Input file not found", sys.exit(1)
TextInputMissing ==
    /\ pc = "text_start"
    /\ input = "missing"
    /\ pc' = "text_failed"
    /\ exit_status' = 1
    /\ UNCHANGED <<serverVars, input, pureVars, doc, textVars, glbVars, offset, metadata, next>>

\* convert.py: etree.parse raises, "Conversion failed", sys.exit(1)
TextParseFails ==
    /\ pc = "text_start"
    /\ input = "malformed"
    /\ pc' = "text_failed"
    /\ exit_status' = 1
    /\ UNCHANGED <<serverVars, input, pureVars, doc, textVars, glbVars, offset, metadata, next>>

\* convert.py: citygml_parser.parse()
TextParseStep ==
    /\ pc = "text_start"
    /\ input = "ok"
    /\ geometries' = TextParse(doc)
    /\ pc' = "text_parsed"
    /\ UNCHANGED <<serverVars, runVars, pureVars, doc, centered, obj, glbVars, offset, metadata, next>>

\* convert.py: "No geometry found", sys.exit(0)
TextNoGeometry ==
    /\ pc = "text_parsed"
    /\ geometries = <<>>
    /\ pc' = "text_exit0"
    /\ exit_status' = 0
    /\ UNCHANGED <<serverVars, input, pureVars, doc, textVars, glbVars, offset, metadata, next>>

\* convert.py: geo_processor.center_coordinates(geometries)
CenterStep ==
    /\ pc = "text_parsed"
    /\ geometries # <<>>
    /\ LET r == CenterCoordinates(geometries)
       IN  centered' = r.centered /\ offset' = r.offset
    /\ pc' = "text_centered"
    /\ UNCHANGED <<serverVars, runVars, pureVars, doc, geometries, obj, glbVars, metadata, next>>

\* write_single_obj: material file, header, counters
OpenObjStep ==
    /\ pc = "text_centered"
    /\ obj' = OpenObj(centered, offset)
    /\ next' = 1
    /\ pc' = "obj_groups"
    /\ UNCHANGED <<serverVars, runVars, pureVars, doc, geometries, centered, glbVars, offset, metadata>>

\* write_single_obj: one _write_group call
WriteGroupStep ==
    /\ pc = "obj_groups"
    /\ next <= Len(centered)
    /\ obj' = WriteGroup(obj, centered[next].key, centered[next].val)
    /\ next' = next + 1
    /\ UNCHANGED <<serverVars, runVars, pc, pureVars, doc, geometries, centered, glbVars, offset, metadata>>

\* write_single_obj: _write_metadata; main then returns
ObjMetadataStep ==
    /\ pc = "obj_groups"
    /\ next > Len(centered)
    /\ metadata' = ObjMetadata(centered, offset)
    /\ pc' = "text_done"
    /\ exit_status' = 0
    /\ UNCHANGED <<serverVars, input, pureVars, doc, textVars, glbVars, offset, next>>

\* gml2glb.py: parse_citygml(gml_file)
GlbParseStep ==
    /\ pc = "glb_start"
    /\ input = "ok"
    /\ ~ParseCitygmlRaises(doc)
    /\ buildings_data' = ParseCitygml(doc)
    /\ pc' = "glb_parsed"
    /\ UNCHANGED <<serverVars, runVars, pureVars, doc, textVars, glb, gltf, file, offset, metadata, next>>

\* an input failure that ends the process with status 0
GlbInputFailsExitZero ==
    /\ pc = "glb_start"
    /\ input # "ok"
    /\ pc' = "glb_raised"
    /\ exit_status' = 0
    /\ UNCHANGED <<serverVars, input, pureVars, doc, textVars, glbVars, offset, metadata, next>>

\* gml2glb.py: ET.parse raises (no file, not XML), nothing catches it: the
\* interpreter prints the traceback and exits with status 1
GlbInputFails ==
    /\ pc = "glb_start"
    /\ input # "ok"
    /\ pc' = "glb_raised"
    /\ exit_status' = 1
    /\ UNCHANGED <<serverVars, input, pureVars, doc, textVars, glbVars, offset, metadata, next>>

\* gml2glb.py: parse_citygml raises on a coordinate, nothing catches it
GlbParseRaises ==
    /\ pc = "glb_start"
    /\ input = "ok"
    /\ ParseCitygmlRaises(doc)
    /\ pc' = "glb_raised"
    /\ exit_status' = 1
    /\ UNCHANGED <<serverVars, input, pureVars, doc, textVars, glbVars, offset, metadata, next>>

TotalSurfaces(data) == SumSeq([i \in DOMAIN data |-> Len(data[i].val.surfaces)])

\* gml2glb.py: "No buildings found!" / "No surfaces found in buildings!", sys.exit(1)
GlbNothingFound ==
    /\ pc = "glb_parsed"
    /\ buildings_data = <<>> \/ TotalSurfaces(buildings_data) = 0
    /\ pc' = "glb_exit1"
    /\ exit_status' = 1
    /\ UNCHANGED <<serverVars, input, pureVars, doc, textVars, glbVars, offset, metadata, next>>

\* gml2glb.py: calculate_offset(buildings_data), and the entry of create_glb
CalculateOffsetStep ==
    /\ pc = "glb_parsed"
    /\ buildings_data # <<>>
    /\ TotalSurfaces(buildings_data) # 0
    /\ offset' = CalculateOffset(buildings_data)
    /\ glb' = EmptyGlb
    /\ next' = 1
    /\ pc' = "glb_create"
    /\ UNCHANGED <<serverVars, runVars, pureVars, doc, textVars, buildings_data, gltf, file, metadata>>

\* create_glb: one pass of the loop over the buildings
CreateMeshStep ==
    /\ pc = "glb_create"
    /\ next <= Len(buildings_data)
    /\ glb' = CreateMesh(glb, buildings_data[next].key, buildings_data[next].val, offset)
    /\ next' = next + 1
    /\ UNCHANGED <<serverVars, runVars, pc, pureVars, doc, textVars, buildings_data, gltf, file, offset, metadata>>

\* create_glb: the scene description and write_glb
FinishGlbStep ==
    /\ pc = "glb_create"
    /\ next > Len(buildings_data)
    /\ gltf' = GltfJson(glb)
    /\ \E json_len \in JsonLens :
          file' = WriteGlb(json_len, CombinedLength(glb.buffers_data))
    /\ pc' = "glb_written"
    /\ UNCHANGED <<serverVars, runVars, pureVars, doc, textVars, buildings_data, glb, offset, metadata, next>>

\* gml2glb.py: write_metadata(buildings_data, metadata_file, offset); main
\* then returns
WriteMetadataStep ==
    /\ pc = "glb_written"
    /\ metadata' = WriteMetadata(buildings_data, offset)
    /\ pc' = "glb_done"
    /\ exit_status' = 0
    /\ UNCHANGED <<serverVars, input, pureVars, doc, textVars, glbVars, offset, next>>

Next ==
    \/ TextInputMissing
    \/ TextParseFails
    \/ TextParseStep
    \/ TextNoGeometry
    \/ CenterStep
    \/ OpenObjStep
    \/ WriteGroupStep
    \/ ObjMetadataStep
    \/ GlbParseStep
    \/ GlbInputFails
    \/ GlbParseRaises
    \/ GlbNothingFound
    \/ CalculateOffsetStep
    \/ CreateMeshStep
    \/ FinishGlbStep
    \/ WriteMetadataStep

Spec == Init /\ [][Next]_vars

-----------------------------------------------------------------------------
(* Claims *)

\* the loop length after the closing vertex is dropped, as the claim counts it
OpenLen(loop) ==
    IF Len(loop) >= 2 /\ loop[Len(loop)] = loop[1] THEN Len(loop) - 1 ELSE Len(loop)

\* C3: a loop with n >= 3 vertices after the closing vertex is dropped yields
\* exactly the n-2 triangles (0, i, i+1), i = 1..n-2, in that order, all indices
\* within 0..n-1 and together covering 0..n-1; a shorter loop yields none.
C3_FanTriangulation ==
    pc = "tri_done" =>
        LET n == OpenLen(arg)
        IN  IF n >= 3
            THEN /\ Len(ret) = n - 2
                 /\ \A i \in 1..(n - 2) : ret[i] = <<0, i, i + 1>>
                 /\ \A i \in 1..Len(ret) : \A k \in 1..3 : ret[i][k] \in 0..(n - 1)
                 /\ UNION {Range(ret[i]) : i \in 1..Len(ret)} = 0..(n - 1)
            ELSE ret = <<>>

\* a closed ring of three distinct vertices has been triangulated
C3_Witness ==
    /\ pc = "tri_done"
    /\ Len(arg) = 4
    /\ arg[1] = arg[4]
    /\ Cardinality(Range(arg)) = 3
    /\ Len(ret) = 1

\* the smallest multiple of four that is at least n
PadUp(n) == 4 * ((n + 3) \div 4)

\* C1: the header's total-length field is 12 + 8 + padded JSON length + 8 +
\* padded binary length and is the number of bytes written; each chunk's length
\* prefix is its padded length, a multiple of 4, and each padding is 0..3 bytes.
C1_GlbLengths ==
    pc = "write_glb_done" =>
        /\ file[3].name = "length"
        /\ file[3].value = 12 + 8 + PadUp(arg.json_len) + 8 + PadUp(arg.bin_len)
        /\ file[3].value = SumSeq([i \in DOMAIN file |-> file[i].size])
        /\ file[4].value = file[6].size
        /\ file[4].value = PadUp(arg.json_len)
        /\ file[4].value % 4 = 0
        /\ file[6].size - arg.json_len = file[6].value
        /\ file[6].value \in 0..3
        /\ file[7].value = file[9].size
        /\ file[7].value = PadUp(arg.bin_len)
        /\ file[7].value % 4 = 0
        /\ file[9].size - arg.bin_len = file[9].value
        /\ file[9].value \in 0..3

\* a file whose JSON chunk took 3 padding bytes and whose payload took 1
C1_Witness ==
    /\ pc = "write_glb_done"
    /\ arg.json_len % 4 = 1
    /\ arg.bin_len % 4 = 3
    /\ file[6].value = 3
    /\ file[9].value = 1

\* the padding that takes a byte position to the next 4-byte boundary
NeededPadding(x) == CHOOSE k \in 0..3 : (x + k) % 4 = 0

ViewEnd(view) == view.byteOffset + view.byteLength

InCreateGlb == pc \in {"glb_create", "glb_written", "glb_done"}

\* C2: the buffer views are contiguous in emission order: the first starts at
\* 0, each later one starts where the previous one ends plus the padding to a
\* 4-byte boundary, every start is a multiple of 4, no two overlap, and
\* buffers[0].byteLength is the final running offset and the length of the
\* payload handed to write_glb.
C2_BufferViewLayout ==
    InCreateGlb =>
        LET views == glb.buffer_views
        IN  /\ views # <<>> => views[1].byteOffset = 0
            /\ \A i \in 2..Len(views) :
                  views[i].byteOffset =
                      ViewEnd(views[i - 1]) + NeededPadding(ViewEnd(views[i - 1]))
            /\ \A i \in DOMAIN views : views[i].byteOffset % 4 = 0
            /\ \A i, j \in DOMAIN views :
                  i < j => ViewEnd(views[i]) <= views[j].byteOffset
            /\ pc \in {"glb_written", "glb_done"} =>
                  /\ gltf.buffers[1].byteLength = glb.current_byte_offset
                  /\ gltf.buffers[1].byteLength = file[9].size - file[9].value
                  /\ views # <<>> =>
                        NeededPadding(ViewEnd(views[Len(views)])) + ViewEnd(views[Len(views)])
                            = glb.current_byte_offset

\* two buildings have been laid out and the file is written
C2_Witness ==
    /\ pc = "glb_written"
    /\ Len(glb.buffer_views) = 4
    /\ glb.buffer_views[3].byteOffset > 0

HasSurfaces(entry) == entry.val.surfaces # <<>>

\* C4: one mesh and one node per building that has a surface, none for a
\* building without; node i references mesh i, both carry the building
\* identifier; each mesh has one primitive, mode 4, whose POSITION and indices
\* are the two accessors made for that building; the scene lists nodes
\* 0..(number of meshes - 1).
C4_OneMeshPerBuilding ==
    pc \in {"glb_written", "glb_done"} =>
        LET built == SelectSeq(buildings_data, HasSurfaces)
        IN  /\ Len(gltf.meshes) = Len(built)
            /\ Len(gltf.nodes) = Len(built)
            /\ Len(gltf.accessors) = 2 * Len(built)
            /\ \A i \in DOMAIN built :
                  /\ gltf.meshes[i].name = built[i].key
                  /\ gltf.nodes[i].name = built[i].key
                  /\ gltf.nodes[i].mesh = i - 1
                  /\ Len(gltf.meshes[i].primitives) = 1
                  /\ gltf.meshes[i].primitives[1].mode = 4
                  /\ gltf.meshes[i].primitives[1].attributes.POSITION = 2 * (i - 1)
                  /\ gltf.meshes[i].primitives[1].indices = 2 * (i - 1) + 1
                  /\ gltf.accessors[2 * i - 1].type = "VEC3"
                  /\ gltf.accessors[2 * i].type = "SCALAR"
            /\ gltf.scenes[1].nodes = [i \in DOMAIN gltf.meshes |-> i - 1]

\* a scene of two meshes made from three buildings, one of them empty
C4_Witness ==
    /\ pc = "glb_written"
    /\ Len(buildings_data) = 3
    /\ \E i \in DOMAIN buildings_data : buildings_data[i].val.surfaces = <<>>
    /\ Len(gltf.meshes) = 2

GroupNames == {obj.lines[i].name : i \in {j \in DOMAIN obj.lines : obj.lines[j].t = "g"}}

NodeNames == {gltf.nodes[i].name : i \in DOMAIN gltf.nodes}

MeshNames == {gltf.meshes[i].name : i \in DOMAIN gltf.meshes}

\* the keys of the metadata index whose entry counts at least one polygon
CountedKeys ==
    {metadata.objects[i].key :
        i \in {j \in DOMAIN metadata.objects : metadata.objects[j].val.polygon_count > 0}}

\* C5: every key of the metadata index with polygon_count > 0 names a group of
\* the OBJ file of the same run (text path), and a node and a mesh of the GLB of
\* the same run (binary path); every GLB node and mesh name is a key of the index.
C5_IdentifierRoundTrip ==
    /\ pc = "text_done" => CountedKeys \subseteq GroupNames
    /\ pc = "glb_done" =>
          /\ CountedKeys \subseteq NodeNames
          /\ CountedKeys \subseteq MeshNames
          /\ NodeNames \cup MeshNames \subseteq Range(DictKeys(metadata.objects))

\* a binary run whose index holds a building without polygons beside two meshes
C5_Witness ==
    /\ pc = "glb_done"
    /\ Cardinality(MeshNames) = 2
    /\ \E i \in DOMAIN metadata.objects : metadata.objects[i].val.polygon_count = 0

\* the loops of a record that the text writer writes, in order
RECURSIVE WrittenLoops(_)
WrittenLoops(polygons) ==
    IF polygons = <<>> THEN <<>>
    ELSE (IF Len(Head(polygons)) >= 3 THEN <<Head(polygons)>> ELSE <<>>)
             \o WrittenLoops(Tail(polygons))

\* the source vertices behind the v lines of the OBJ file, in file order
TextSourceVertices ==
    Flatten(Flatten([i \in DOMAIN geometries |-> WrittenLoops(geometries[i].val.polygons)]))

IsVLine(line) == line.t = "v"

TextWrittenVertices == SelectSeq(obj.lines, IsVLine)

\* the source corners behind the position buffer of a building, in buffer order
SourceFan(points) ==
    IF Len(points) < 3 THEN <<>>
    ELSE Flatten([i \in 1..(Len(points) - 2) |-> <<points[1], points[i + 1], points[i + 2]>>])

GlbSourceCoordinates(building_info) ==
    Flatten(Flatten([j \in DOMAIN building_info.surfaces |->
        SourceFan(building_info.surfaces[j].points)]))

IsPositions(chunk) == chunk.kind = "f32"

PositionChunks == SelectSeq(glb.buffers_data, IsPositions)

\* the vertices held in memory are the source vertices minus the recorded offset
TextOffsetIsTheOneSubtracted ==
    /\ metadata.offset = offset
    /\ DictKeys(centered) = DictKeys(geometries)
    /\ \A i \in DOMAIN centered :
          /\ DOMAIN centered[i].val.polygons = DOMAIN geometries[i].val.polygons
          /\ \A j \in DOMAIN centered[i].val.polygons :
                /\ DOMAIN centered[i].val.polygons[j] = DOMAIN geometries[i].val.polygons[j]
                /\ \A k \in DOMAIN centered[i].val.polygons[j] : \A a \in 1..3 :
                      centered[i].val.polygons[j][k][a] + metadata.offset[a]
                          = geometries[i].val.polygons[j][k][a]

\* every position buffer belongs to the building its mesh is named after and
\* has one value per source coordinate
GlbBuffersMatchSources ==
    /\ metadata.offset = offset
    /\ Len(PositionChunks) = Len(gltf.meshes)
    /\ \A m \in DOMAIN gltf.meshes :
          Len(PositionChunks[m].vals)
              = Len(GlbSourceCoordinates(DictGet(buildings_data, gltf.meshes[m].name)))

C7_CenterKeepsShape ==
    (pc = "center_done" /\ arg # <<>>) =>
        LET out == ret[1].centered
            off == ret[1].offset
        IN  /\ DictKeys(out) = DictKeys(arg)
            /\ \A i \in DOMAIN arg :
                  /\ out[i].val.element_type = arg[i].val.element_type
                  /\ out[i].val.metadata = arg[i].val.metadata
                  /\ Len(out[i].val.polygons) = Len(arg[i].val.polygons)
                  /\ \A j \in DOMAIN arg[i].val.polygons :
                        /\ Len(out[i].val.polygons[j]) = Len(arg[i].val.polygons[j])
                        /\ \A k \in DOMAIN arg[i].val.polygons[j] :
                              out[i].val.polygons[j][k] =
                                  << arg[i].val.polygons[j][k][1] - off[1],
                                     arg[i].val.polygons[j][k][2] - off[2],
                                     arg[i].val.polygons[j][k][3] - off[3] >>

\* a map of two records was centred with a different non-zero offset on two axes
C7_Witness ==
    /\ pc = "center_done"
    /\ Len(arg) = 2
    /\ ret[1].offset[1] # 0
    /\ ret[1].offset[1] # ret[1].offset[2]
    /\ ret[1].centered # arg

\* every coordinate of the map on one axis
AxisValues(geoms, a) ==
    UNION {UNION {{p[a] : p \in Range(poly)} : poly \in Range(geoms[i].val.polygons)} :
              i \in DOMAIN geoms}

HasVertices(geoms) ==
    \E i \in DOMAIN geoms : \E j \in DOMAIN geoms[i].val.polygons :
        geoms[i].val.polygons[j] # <<>>

\* C8: the offset is (min + max) / 2 per axis over every vertex of the map; a
\* map without vertices yields offset (0,0,0) and the input map itself.
C8_OffsetIsBoxMidpoint ==
    pc = "center_done" =>
        IF HasVertices(arg)
        THEN \A a \in 1..3 :
                2 * ret[1].offset[a] = SetMin(AxisValues(arg, a)) + SetMax(AxisValues(arg, a))
        ELSE ret[1].offset = <<0, 0, 0>> /\ ret[1].centered = arg

\* a map whose box is not centred on the origin on any axis
C8_Witness ==
    /\ pc = "center_done"
    /\ HasVertices(arg)
    /\ \A a \in 1..3 : ret[1].offset[a] # 0

ValidLoops(polygons) == Cardinality({j \in DOMAIN polygons : Len(polygons[j]) >= 3})

\* the source rings of the Building elements with the given identifier that
\* sit in a surface of one of the six tags, as the points the rings hold
GlbSourceRings(id) ==
    Flatten([b \in DOMAIN doc |->
        IF doc[b].id # id THEN <<>>
        ELSE Flatten([s \in DOMAIN doc[b].surfaces |->
                 IF doc[b].surfaces[s].tag \in Range(GLB_SURFACE_TYPES)
                 THEN [r \in DOMAIN doc[b].surfaces[s].polygons |->
                          RingPoints(doc[b].surfaces[s].polygons[r])]
                 ELSE <<>>])])

\* C10 as stated: a two-point loop yields no triangle, no v line and no face in
\* the OBJ file and nothing in the GLB, and polygon_count counts only the loops
\* of at least three points, the object itself staying in the index.
C10_DegenerateLoopNotCounted ==
    /\ pc = "text_done" =>
          /\ Len(TextWrittenVertices) = Len(TextSourceVertices)
          /\ DictKeys(metadata.objects) = DictKeys(geometries)
          /\ \A i \in DOMAIN metadata.objects :
                metadata.objects[i].val.polygon_count
                    = ValidLoops(geometries[i].val.polygons)
    /\ pc = "glb_done" =>
          /\ GlbBuffersMatchSources
          /\ \A i \in DOMAIN metadata.objects :
                metadata.objects[i].val.polygon_count
                    = ValidLoops(GlbSourceRings(metadata.objects[i].key))

\* the elements of the document that carry an identifier and are a Building
\* or a surface of one of the six tags, with the rings of their subtree
IdentifiedElements ==
    {[id |-> doc[b].id, tag |-> "Building", rings |-> BuildingRings(doc[b])] :
        b \in {c \in DOMAIN doc : doc[c].id # ""}}
    \cup {[id |-> sf.id, tag |-> sf.tag, rings |-> sf.polygons] :
             sf \in {x \in Range(AllSurfaces(doc)) :
                        x.id # "" /\ x.tag \in Range(GLB_SURFACE_TYPES)}}

\* no ring of the element yields a loop of three or more points
NoValidPolygon(e) == ValidLoops(ExtractPolygons(e.rings)) = 0

\* C11 as stated: an identified object without a valid polygon is an entry of
\* the metadata index with polygon_count 0, has no group in the OBJ file and no
\* mesh or node in the GLB.
C11_EmptyObjectKeptInIndex ==
    /\ pc = "text_done" =>
          \A e \in IdentifiedElements :
              NoValidPolygon(e) =>
                  /\ DictHas(metadata.objects, e.id)
                  /\ DictGet(metadata.objects, e.id).polygon_count = 0
                  /\ e.id \notin GroupNames
    /\ pc = "glb_done" =>
          \A e \in IdentifiedElements :
              (e.tag = "Building" /\ ValidLoops(GlbSourceRings(e.id)) = 0) =>
                  /\ DictHas(metadata.objects, e.id)
                  /\ DictGet(metadata.objects, e.id).polygon_count = 0
                  /\ e.id \notin NodeNames \cup MeshNames

IsIndices(chunk) == chunk.kind = "u32"

IndexChunks == SelectSeq(glb.buffers_data, IsIndices)

\* the number of triangles of a building: a fan of n points has n - 2
TriangleCount(building_info) ==
    SumSeq([j \in DOMAIN building_info.surfaces |->
               Len(building_info.surfaces[j].points) - 2])

\* C12: for a mesh of T triangles the position buffer holds 9T float32 values,
\* the corners of the triangles in order, the index buffer is 0, 1, ..., 3T-1,
\* both accessor counts are 3T, no index occurs twice and every index is below
\* the position count.
C12_UnsharedSequentialVertices ==
    InCreateGlb =>
        /\ Len(PositionChunks) = Len(glb.meshes)
        /\ Len(IndexChunks) = Len(glb.meshes)
        /\ \A m \in DOMAIN glb.meshes :
              LET info == DictGet(buildings_data, glb.meshes[m].name)
                  T    == TriangleCount(info)
                  src  == GlbSourceCoordinates(info)
                  pos  == PositionChunks[m].vals
                  idx  == IndexChunks[m].vals
                  prim == glb.meshes[m].primitives[1]
                  pacc == glb.accessors[prim.attributes.POSITION + 1]
                  iacc == glb.accessors[prim.indices + 1]
              IN  /\ T >= 1
                  /\ Len(pos) = 9 * T
                  /\ Len(src) = 9 * T
                  /\ \A k \in DOMAIN pos :
                        pos[k] = F32(src[k] - offset[((k - 1) % 3) + 1])
                  /\ idx = [n \in 1..(3 * T) |-> n - 1]
                  /\ pacc.count = 3 * T
                  /\ iacc.count = 3 * T
                  /\ pacc.componentType = 5126
                  /\ iacc.componentType = 5125
                  /\ \A a, b \in DOMAIN idx : idx[a] = idx[b] => a = b
                  /\ \A a \in DOMAIN idx : idx[a] < pacc.count
                  /\ glb.buffer_views[pacc.bufferView + 1].byteLength = 36 * T
                  /\ glb.buffer_views[iacc.bufferView + 1].byteLength = 12 * T

\* a second mesh of three triangles made from two surfaces, one a closed ring
C12_Witness ==
    /\ pc = "glb_written"
    /\ Len(glb.meshes) = 2
    /\ TriangleCount(DictGet(buildings_data, glb.meshes[2].name)) = 3
    /\ Len(DictGet(buildings_data, glb.meshes[2].name).surfaces) = 2
    /\ Len(IndexChunks[2].vals) = 9

\* the number of lines of the OBJ file of one kind
LineCount(kind) == Cardinality({i \in DOMAIN obj.lines : obj.lines[i].t = kind})

InGroupLoop == pc \in {"obj_groups", "text_done"}

\* C13: from the opening of the OBJ file on, vertex_count is 1 plus the number
\* of v lines written and normal_count is 1 plus the number of vn lines, which
\* is the number of f lines; no step of the run decreases or resets either
\* counter.
C13_CountersRunFileWide ==
    /\ [](InGroupLoop =>
             /\ obj.vertex_count = 1 + LineCount("v")
             /\ obj.normal_count = 1 + LineCount("vn")
             /\ LineCount("vn") = LineCount("f")
             /\ obj.vertex_count >= 1
             /\ obj.normal_count >= 1)
    /\ [][InGroupLoop =>
             /\ obj'.vertex_count >= obj.vertex_count
             /\ obj'.normal_count >= obj.normal_count]_vars

\* two groups have been written, and the second one has a face whose normal
\* index continues the count of the first
C13_Witness ==
    /\ pc = "obj_groups"
    /\ next = 3
    /\ \E i, j, k \in DOMAIN obj.lines :
          /\ i < j /\ j < k
          /\ obj.lines[i].t = "f"
          /\ obj.lines[j].t = "g"
          /\ obj.lines[k].t = "f"
          /\ obj.lines[k].n > obj.lines[i].n

UniqueKeys(d) == Cardinality(Range(DictKeys(d))) = Len(d)

\* the number of surfaces of a building record of one type
SurfacesTyped(building_info, t) ==
    Cardinality({j \in DOMAIN building_info.surfaces : building_info.surfaces[j].type = t})

\* C14: the index has one entry per record of the map handed to the indexer,
\* in the same order, total_objects is their number, and each entry carries
\* the record's element_type and metadata and, as polygon_count, the number
\* of polygons (text path) or surfaces (binary path) of the record; on the
\* binary path the records are buildings and the metadata is made of the
\* record's identifier, description and surfaces counted by type.
C14_IndexMirrorsRecords ==
    /\ pc = "text_done" =>
          /\ DictKeys(metadata.objects) = DictKeys(centered)
          /\ UniqueKeys(metadata.objects)
          /\ metadata.total_objects = Len(metadata.objects)
          /\ \A i \in DOMAIN centered :
                /\ metadata.objects[i].val.element_type = centered[i].val.element_type
                /\ metadata.objects[i].val.metadata = centered[i].val.metadata
                /\ metadata.objects[i].val.polygon_count = Len(centered[i].val.polygons)
    /\ pc = "glb_done" =>
          /\ DictKeys(metadata.objects) = DictKeys(buildings_data)
          /\ UniqueKeys(metadata.objects)
          /\ metadata.total_objects = Len(metadata.objects)
          /\ \A i \in DOMAIN buildings_data :
                LET info  == buildings_data[i].val
                    entry == metadata.objects[i].val
                    types == DictGet(entry.metadata, "surfaceTypes")
                IN  /\ entry.element_type = "Building"
                    /\ entry.polygon_count = Len(info.surfaces)
                    /\ DictGet(entry.metadata, "name") = info.id
                    /\ DictGet(entry.metadata, "description") = info.description
                    /\ UniqueKeys(types)
                    /\ \A t \in Range(GLB_SURFACE_TYPES) :
                          IF SurfacesTyped(info, t) = 0 THEN ~DictHas(types, t)
                          ELSE DictHas(types, t) /\ DictGet(types, t) = SurfacesTyped(info, t)

\* a text run whose index holds at least three entries, one of them with a
\* name, a description and two polygons of which one is a two-point loop
C14_Witness ==
    /\ pc = "text_done"
    /\ metadata.total_objects >= 3
    /\ \E i \in DOMAIN metadata.objects :
          /\ metadata.objects[i].val.polygon_count = 2
          /\ Len(metadata.objects[i].val.metadata) = 2
          /\ \E j \in DOMAIN centered[i].val.polygons : Len(centered[i].val.polygons[j]) = 2

\* the loop a ring stands for when the packed form takes precedence
PrecedenceLoop(ring) ==
    IF ring.posList # <<>>
    THEN PosListCoordinates(ring.posList, 1)
    ELSE PosCoordinates(ring.pos)

IsLoop(loop) == loop # <<>>

IsValidLoop(loop) == Len(loop) >= 3

PrecedenceLoops(rings) == [r \in DOMAIN rings |-> PrecedenceLoop(rings[r])]

\* the only element of the document with its identifier
UniqueId(e) == Cardinality({x \in IdentifiedElements : x.id = e.id}) = 1

\* the rings of the Building elements with the given identifier that sit in
\* a surface of one of the six tags, in the order of parse_citygml: by type,
\* then by document order
RECURSIVE RingsOfType(_, _)
RingsOfType(surfaces, t) ==
    IF surfaces = <<>> THEN <<>>
    ELSE (IF Head(surfaces).tag = t THEN Head(surfaces).polygons ELSE <<>>)
             \o RingsOfType(Tail(surfaces), t)

RingsByType(building) ==
    Flatten([t \in DOMAIN GLB_SURFACE_TYPES |->
                RingsOfType(building.surfaces, GLB_SURFACE_TYPES[t])])

RingsOfId(id) ==
    Flatten([b \in DOMAIN doc |-> IF doc[b].id = id THEN RingsByType(doc[b]) ELSE <<>>])

\* C15 as stated: a ring that carries a posList and pos elements yields the
\* posList points only, a ring with one encoding yields that encoding's points
\* in document order, in both parsers.
C15_PackedFormTakesPrecedence ==
    /\ pc = "text_parsed" =>
          \A e \in IdentifiedElements :
              (UniqueId(e) /\ DictHas(geometries, e.id)) =>
                  DictGet(geometries, e.id).polygons
                      = SelectSeq(PrecedenceLoops(e.rings), IsLoop)
    /\ pc = "glb_parsed" =>
          \A i \in DOMAIN buildings_data :
              [j \in DOMAIN buildings_data[i].val.surfaces |->
                    buildings_data[i].val.surfaces[j].points]
                  = SelectSeq(PrecedenceLoops(RingsOfId(buildings_data[i].key)), IsValidLoop)

\* the well-formed triples of a token list, in order: the complete groups of
\* three tokens that are all numeric
SoundTriples(toks) ==
    LET starts == [k \in 1..(Len(toks) \div 3) |-> 3 * k - 2]
        sound  == SelectSeq(starts, LAMBDA i : NumericTriple(toks, i))
    IN  [n \in DOMAIN sound |-> TripleAt(toks, sound[n])]

\* the loop of a ring when every malformed triple is skipped
TolerantLoop(ring) ==
    IF ring.posList # <<>>
    THEN SoundTriples(ring.posList)
    ELSE Flatten([i \in DOMAIN ring.pos |-> SoundTriples(SubSeq(ring.pos[i], 1, 3))])

TolerantLoops(rings) == [r \in DOMAIN rings |-> TolerantLoop(rings[r])]

OneEncoding(rings) == \A r \in DOMAIN rings : rings[r].pos = <<>> \/ rings[r].posList = <<>>

\* C16 as stated: a non-numeric token or a packed list whose length is not a
\* multiple of 3 aborts neither parser; the malformed triple is skipped, and
\* every other polygon and object is extracted and returned.
C16_MalformedTripleSkipped ==
    /\ input = "ok" => pc \notin {"text_failed", "glb_raised"}
    /\ pc = "text_parsed" =>
          \A e \in IdentifiedElements :
              (UniqueId(e) /\ OneEncoding(e.rings) /\ DictHas(geometries, e.id)) =>
                  DictGet(geometries, e.id).polygons
                      = SelectSeq(TolerantLoops(e.rings), IsLoop)
    /\ pc = "glb_parsed" =>
          \A i \in DOMAIN buildings_data :
              [j \in DOMAIN buildings_data[i].val.surfaces |->
                    buildings_data[i].val.surfaces[j].points]
                  = SelectSeq(TolerantLoops(RingsOfId(buildings_data[i].key)), IsValidLoop)

\* the element has a ring from which at least one point can be read
HasGeometry(e) == SelectSeq(TolerantLoops(e.rings), IsLoop) # <<>>

\* the identifiers carried by the elements of the document
ElementIds ==
    {doc[b].id : b \in DOMAIN doc} \cup {sf.id : sf \in Range(AllSurfaces(doc))}

\* C17 as stated: CityGMLParser.parse returns a record for every element with
\* an identifier whose tag is Building or one of the six surface tags (here:
\* for those that have geometry), under the element's own tag; an element
\* without identifier is skipped, the parse does not fail and no record is
\* keyed by anything but an identifier.
C17_SixSurfaceTagsHarvested ==
    /\ input = "ok" => pc # "text_failed"
    /\ pc = "text_parsed" =>
          /\ \A e \in IdentifiedElements :
                HasGeometry(e) =>
                    /\ DictHas(geometries, e.id)
                    /\ UniqueId(e) => DictGet(geometries, e.id).element_type = e.tag
          /\ \A i \in DOMAIN geometries :
                geometries[i].key # "" /\ geometries[i].key \in ElementIds

\* every identifier of the document is carried by one element only
AllIdsDistinct == \A e \in IdentifiedElements : UniqueId(e)

\* the identified surfaces of a Building element, of the six tags, that have
\* geometry
IdentifiedSurfaces(building) ==
    {sf \in Range(building.surfaces) :
        /\ sf.id # ""
        /\ sf.tag \in Range(GLB_SURFACE_TYPES)
        /\ SelectSeq(TolerantLoops(sf.polygons), IsLoop) # <<>>}

\* C18 as stated: for a Building with surfaces, all identifiers distinct, parse
\* returns the building's record, whose polygons are all polygons of its
\* subtree in document order, and one record per identified surface, whose
\* polygons are the surface's own.
C18_BuildingAggregatesSurfaces ==
    (pc = "text_parsed" /\ AllIdsDistinct) =>
        \A b \in DOMAIN doc :
            (/\ doc[b].id # ""
             /\ IdentifiedSurfaces(doc[b]) # {}
             /\ OneEncoding(BuildingRings(doc[b]))) =>
                /\ DictHas(geometries, doc[b].id)
                /\ DictGet(geometries, doc[b].id).polygons
                      = SelectSeq(TolerantLoops(BuildingRings(doc[b])), IsLoop)
                /\ \A sf \in IdentifiedSurfaces(doc[b]) :
                      /\ DictHas(geometries, sf.id)
                      /\ DictGet(geometries, sf.id).polygons
                            = SelectSeq(TolerantLoops(sf.polygons), IsLoop)

\* no output artifact exists: no material file, no OBJ line, no GLB byte, no
\* metadata index
NothingWritten ==
    /\ obj = NewWriter
    /\ file = <<>>
    /\ metadata = NoMetadata

\* C19: with a missing or malformed input the one step the run can take ends
\* it with a non-zero exit status, and no artifact is ever written; on any run
\* an artifact is written only after the document has been parsed.
C19_InputErrorWritesNothing ==
    /\ [](input # "ok" =>
             /\ NothingWritten
             /\ exit_status \in {-1, 1}
             /\ exit_status = -1 <=> pc \in {"text_start", "glb_start"})
    /\ [](~NothingWritten =>
             /\ input = "ok"
             /\ \/ pc \in {"obj_groups", "text_done"} /\ geometries = TextParse(doc)
                \/ pc \in {"glb_written", "glb_done"} /\ buildings_data = ParseCitygml(doc))
    /\ [][input # "ok" =>
             /\ pc' \in {"text_failed", "glb_raised"}
             /\ exit_status' > 0
             /\ NothingWritten']_vars

\* a binary run on a file that is not XML has ended
C19_Witness ==
    /\ pc = "glb_raised"
    /\ input = "malformed"
    /\ exit_status = 1
    /\ NothingWritten

\* no mesh artifact exists: no material file, no OBJ line, no GLB byte
NoMeshWritten ==
    /\ obj = NewWriter
    /\ file = <<>>

TextRunEnded == pc \in {"text_exit0", "text_done"}

GlbRunEnded == pc \in {"glb_exit1", "glb_done"}

\* C20 as stated: a run whose parse returned nothing (no geometry record on the
\* text path; no building or no surface on the binary path) ends with exit
\* status 0 and without a mesh artifact.
C20_EmptyResultExitsZero ==
    /\ (TextRunEnded /\ geometries = <<>>) =>
          exit_status = 0 /\ NoMeshWritten
    /\ (GlbRunEnded /\ (buildings_data = <<>> \/ TotalSurfaces(buildings_data) = 0)) =>
          exit_status = 0 /\ NoMeshWritten

-----------------------------------------------------------------------------
(* C24 *)

\* the loops behind the v lines written so far, in file order
LoopsWritten ==
    Flatten([i \in 1..(next - 1) |-> WrittenLoops(centered[i].val.polygons)])

\* the file-wide number of the first and of the last v line of loop k
FirstVLine(k) == 1 + SumSeq([j \in 1..(k - 1) |-> Len(LoopsWritten[j])])

LastVLine(k) == FirstVLine(k) + Len(LoopsWritten[k]) - 1

\* the number of lines of one kind above line l of the OBJ file
LinesAbove(kind, l) ==
    Cardinality({i \in 1..(l - 1) : obj.lines[i].t = kind})

IsVnLine(line) == line.t = "vn"

\* C24: every f line names three v lines that are written above it and that
\* belong to one and the same polygon, and one vn line written above it that
\* holds the normal of exactly these three vertices; the m-th f line of the
\* file names the m-th vn line.  This holds after every group, whatever the
\* groups hold: skipped loops, closed rings, no polygon at all.
C24_FaceIndicesPointAtOwnPolygon ==
    InGroupLoop =>
        LET verts   == Flatten(LoopsWritten)
            normals == SelectSeq(obj.lines, IsVnLine)
        IN  /\ Len(TextWrittenVertices) = Len(verts)
            /\ \A l \in DOMAIN obj.lines :
                  obj.lines[l].t = "f" =>
                    LET f == obj.lines[l]
                    IN  /\ \A c \in 1..3 :
                              /\ f.v[c] >= 1
                              /\ f.v[c] <= LinesAbove("v", l)
                              /\ TextWrittenVertices[f.v[c]] = VLine(verts[f.v[c]])
                        /\ \E k \in DOMAIN LoopsWritten :
                              \A c \in 1..3 :
                                  f.v[c] \in FirstVLine(k)..LastVLine(k)
                        /\ f.n >= 1
                        /\ f.n <= LinesAbove("vn", l)
                        /\ f.n = LinesAbove("f", l) + 1
                        /\ normals[f.n].n =
                              CalculateNormal(verts[f.v[1]], verts[f.v[2]], verts[f.v[3]])

\* a finished file of at least two groups with faces, in which a loop was
\* skipped, a closing vertex was written without being referenced, and a
\* group has no loop to write
C24_Witness ==
    /\ pc = "text_done"
    /\ \E i, j, k \in DOMAIN obj.lines :
          /\ i < j /\ j < k
          /\ obj.lines[i].t = "f"
          /\ obj.lines[j].t = "g"
          /\ obj.lines[k].t = "f"
          /\ obj.lines[k].n > 1
    /\ \E i \in DOMAIN centered :
          \E j \in DOMAIN centered[i].val.polygons :
              Len(centered[i].val.polygons[j]) \in 1..2
    /\ \E i \in DOMAIN centered : WrittenLoops(centered[i].val.polygons) = <<>>
    /\ \E k \in DOMAIN LoopsWritten :
          /\ LoopsWritten[k][1] = LoopsWritten[k][Len(LoopsWritten[k])]
          /\ \A l \in DOMAIN obj.lines :
                obj.lines[l].t = "f" =>
                    \A c \in 1..3 : obj.lines[l].v[c] # LastVLine(k)

-----------------------------------------------------------------------------
(* C25 *)

\* the corners GeometryProcessor.triangulate_polygon picks from a ring, as
\* points, in order
GeoFan(points) ==
    LET triangles == GeoTriangulate(points)
    IN  Flatten([i \in DOMAIN triangles |->
            <<points[triangles[i][1] + 1], points[triangles[i][2] + 1],
              points[triangles[i][3] + 1]>>])

GeoFanCoordinates(building_info) ==
    Flatten(Flatten([j \in DOMAIN building_info.surfaces |->
        GeoFan(building_info.surfaces[j].points)]))

\* the vertices of a ring without its closing vertex are pairwise different
PairwiseDifferent(points) ==
    \A a, b \in 1..OpenLen(points) : points[a] = points[b] => a = b

\* C25 as stated: on the binary path a ring of n distinct vertices, closed or
\* not, contributes n - 2 triangles, the ones GeometryProcessor's fan yields
\* for it, and no triangle of a ring of pairwise different vertices has two
\* equal corners.
C25_ClosedRingFansAlike ==
    InCreateGlb =>
        \A m \in DOMAIN glb.meshes :
            LET info == DictGet(buildings_data, glb.meshes[m].name)
                pos  == PositionChunks[m].vals
                geo  == GeoFanCoordinates(info)
                T    == SumSeq([j \in DOMAIN info.surfaces |->
                                   OpenLen(info.surfaces[j].points) - 2])
            IN  /\ Len(pos) = 9 * T
                /\ Len(pos) = Len(geo)
                /\ \A k \in DOMAIN pos :
                      k <= Len(geo) => pos[k] = F32(geo[k] - offset[((k - 1) % 3) + 1])
                /\ \A j \in DOMAIN info.surfaces :
                      PairwiseDifferent(info.surfaces[j].points) =>
                          \A t \in Range(GlbTriangulate(info.surfaces[j].points)) :
                              t[1] # t[2] /\ t[2] # t[3] /\ t[1] # t[3]

-----------------------------------------------------------------------------
(* C26 *)

\* the values a position buffer holds on axis a (1..3)
EmittedOnAxis(chunk, a) == StrideSet(chunk.vals, a - 1)

\* C26 as stated: the offset is the axis-wise minimum over the points of all
\* retained surfaces; every value of every position buffer is >= 0 and, once
\* all meshes are made, 0 occurs on each axis; the min and max of a mesh's
\* position accessor are the axis-wise minimum and maximum of the values its
\* buffer holds, so min <= v <= max for each of them and min <= max.
C26_OffsetAndAccessorBounds ==
    InCreateGlb =>
        /\ \A a \in 1..3 :
              offset[a] = SetMin({p[a] : p \in Range(DataPoints(buildings_data))})
        /\ \A m \in DOMAIN PositionChunks : \A k \in DOMAIN PositionChunks[m].vals :
              PositionChunks[m].vals[k] >= 0
        /\ pc \in {"glb_written", "glb_done"} =>
              \A a \in 1..3 : \E m \in DOMAIN PositionChunks :
                  0 \in EmittedOnAxis(PositionChunks[m], a)
        /\ \A m \in DOMAIN glb.meshes :
              LET prim == glb.meshes[m].primitives[1]
                  pacc == glb.accessors[prim.attributes.POSITION + 1]
              IN  \A a \in 1..3 :
                      /\ pacc.min[a] = SetMin(EmittedOnAxis(PositionChunks[m], a))
                      /\ pacc.max[a] = SetMax(EmittedOnAxis(PositionChunks[m], a))
                      /\ pacc.min[a] <= pacc.max[a]
                      /\ \A v \in EmittedOnAxis(PositionChunks[m], a) :
                              pacc.min[a] <= v /\ v <= pacc.max[a]

-----------------------------------------------------------------------------
(* Run of the derivation of the metadata path from the mesh path *)

\* a path is a sequence of pieces, each a substring that str.replace can only
\* match as a whole: a name, the separator, or a dot with a suffix
PathPieces == {"model", "/", ".obj", ".glb", ".txt"}

Suffixes == {".obj", ".glb", ".txt", ".gml"}

MaxPathLen == 3

GmlPaths == {<<"city", ".gml">>, <<"in", "/", "city", ".gml">>, <<"city", ".glb", ".gml">>}

\* str.replace(old, new): every occurrence is replaced
StrReplace(path, old, new) ==
    [i \in DOMAIN path |-> IF path[i] = old THEN new ELSE path[i]]

\* write_single_obj: output_path.replace('.obj', '_metadata.json')
ObjMetadataPath(output_path) == StrReplace(output_path, ".obj", "_metadata.json")

\* the final component of a path
RECURSIVE PathName(_)
PathName(path) ==
    IF path = <<>> \/ path[Len(path)] = "/" THEN <<>>
    ELSE Append(PathName(SubSeq(path, 1, Len(path) - 1)), path[Len(path)])

\* Path(gml_file).stem: the final component without its last suffix
PathStem(path) ==
    LET name == PathName(path)
    IN  IF Len(name) >= 2 /\ name[Len(name)] \in Suffixes
        THEN SubSeq(name, 1, Len(name) - 1) ELSE name

\* gml2glb main: sys.argv[2], or f"{base_name}.glb"
GlbOutputFile(argv) ==
    IF argv.given THEN argv.output ELSE Append(PathStem(argv.gml), ".glb")

\* gml2glb main: output_file.replace('.glb', '_metadata.json')
GlbMetadataFile(output_file) == StrReplace(output_file, ".glb", "_metadata.json")

InitPath ==
    /\ pc = "path_call"
    /\ arg \in [prog : {"convert", "gml2glb"}, given : {TRUE},
                 output : SeqsUpTo(PathPieces, MaxPathLen) \ {<<>>}, gml : {<<"city", ".gml">>}]
              \cup [prog : {"gml2glb"}, given : {FALSE}, output : {<<>>}, gml : GmlPaths]
    /\ ret = <<>>
    /\ doc = <<>>
    /\ input = "ok"
    /\ PipeIdle
    /\ ServerIdle

\* convert.py -o output: the paths write_single_obj writes to
ObjPathCall ==
    /\ pc = "path_call"
    /\ arg.prog = "convert"
    /\ ret' = [mesh |-> arg.output, metadata |-> ObjMetadataPath(arg.output)]
    /\ pc' = "path_done"
    /\ UNCHANGED <<serverVars, runVars, arg, doc, textVars, glbVars, offset, metadata, next>>

\* gml2glb.py input [output]: the paths main writes to
GlbPathCall ==
    /\ pc = "path_call"
    /\ arg.prog = "gml2glb"
    /\ ret' = [mesh |-> GlbOutputFile(arg), metadata |-> GlbMetadataFile(GlbOutputFile(arg))]
    /\ pc' = "path_done"
    /\ UNCHANGED <<serverVars, runVars, arg, doc, textVars, glbVars, offset, metadata, next>>

NextPath == ObjPathCall \/ GlbPathCall

SpecPath == InitPath /\ [][NextPath]_vars

-----------------------------------------------------------------------------
(* C27 *)

\* a path with only its final extension replaced by _metadata.json
FinalExtensionReplaced(path) ==
    IF Len(PathName(path)) >= 2 /\ path[Len(path)] \in Suffixes
    THEN Append(SubSeq(path, 1, Len(path) - 1), "_metadata.json")
    ELSE Append(path, "_metadata.json")

\* C27 as stated: for every mesh output path the metadata path is the mesh
\* path with only its final extension replaced by _metadata.json, and it is
\* never the mesh path itself, so the metadata never overwrites the mesh.
C27_MetadataBesideMesh ==
    pc = "path_done" =>
        /\ ret.metadata = FinalExtensionReplaced(ret.mesh)
        /\ ret.metadata # ret.mesh

-----------------------------------------------------------------------------
(* extract_building_metadata.py : the enrichment of a metadata file *)

\* a metadata file is a record [keys, offset, total_objects, objects,
\* buildings, surfaces]: keys is the set of top-level keys the JSON object
\* has, and the field of a key it does not have is <<>>

\* the list the script tests element tags and element_type against
ENRICH_SURFACE_TYPES ==
    {"RoofSurface", "WallSurface", "GroundSurface", "ClosureSurface",
     "FloorSurface", "CeilingSurface"}

\* the file _write_metadata leaves behind
MetadataFile(index) ==
    [keys |-> {"offset", "total_objects", "objects"},
     offset |-> index.offset, total_objects |-> index.total_objects,
     objects |-> index.objects, buildings |-> <<>>, surfaces |-> <<>>]

\* the "for surface in surfaces" loop: the ids appended to
\* building_data['surfaces']
RECURSIVE EnrichSurfaceIds(_, _)
EnrichSurfaceIds(surfaces, building_id) ==
    IF surfaces = <<>> THEN <<>>
    ELSE LET surface == Head(surfaces)
             here    == IF /\ surface.id # ""
                           /\ surface.id # building_id
                           /\ surface.tag \in ENRICH_SURFACE_TYPES
                        THEN <<surface.id>> ELSE <<>>
         IN  here \o EnrichSurfaceIds(Tail(surfaces), building_id)

\* surface_to_building_map[surface_id] = building_id for each id of the list
RECURSIVE MapSurfaces(_, _, _)
MapSurfaces(map, surface_ids, building_id) ==
    IF surface_ids = <<>> THEN map
    ELSE MapSurfaces(DictSet(map, Head(surface_ids), building_id),
                     Tail(surface_ids), building_id)

\* building_data of one Building; the document model holds no height or
\* storey element, so the three attributes keep their initial None
EnrichBuildingData(building) ==
    [id |-> building.id, measuredHeight |-> PyNone, storeysAboveGround |-> PyNone,
     storeysBelowGround |-> PyNone,
     surfaces |-> EnrichSurfaceIds(building.surfaces, building.id)]

\* the "for building in buildings" loop on acc = [buildings, map]
RECURSIVE EnrichBuildings(_, _)
EnrichBuildings(buildings, acc) ==
    IF buildings = <<>> THEN acc
    ELSE LET building == Head(buildings)
         IN  IF building.id = ""
             THEN EnrichBuildings(Tail(buildings), acc)
             ELSE LET building_data == EnrichBuildingData(building)
                  IN  EnrichBuildings(Tail(buildings),
                          [buildings |-> DictSet(acc.buildings, building.id, building_data),
                           map       |-> MapSurfaces(acc.map, building_data.surfaces,
                                                     building.id)])

\* surface_data of one entry of 'objects'
EnrichSurfaceData(obj_id, obj_data, map) ==
    [name         |-> IF DictHas(obj_data.metadata, "name")
                      THEN DictGet(obj_data.metadata, "name") ELSE obj_id,
     type         |-> obj_data.element_type,
     polygonCount |-> obj_data.polygon_count,
     buildingId   |-> IF DictHas(map, obj_id) THEN DictGet(map, obj_id) ELSE PyNone]

\* the loop over metadata.get('objects', {}).items()
RECURSIVE EnrichSurfaces(_, _)
EnrichSurfaces(objects, map) ==
    IF objects = <<>> THEN <<>>
    ELSE LET obj_id   == Head(objects).key
             obj_data == Head(objects).val
             here     == IF obj_data.element_type \in ENRICH_SURFACE_TYPES
                         THEN <<[key |-> obj_id,
                                 val |-> EnrichSurfaceData(obj_id, obj_data, map)]>>
                         ELSE <<>>
         IN  here \o EnrichSurfaces(Tail(objects), map)

\* the script: the file it writes from the document and the file it read
Enrich(document, old) ==
    LET found == EnrichBuildings(document, [buildings |-> <<>>, map |-> <<>>])
    IN  [keys |-> {"offset", "total_objects", "buildings", "surfaces"},
         offset        |-> IF "offset" \in old.keys THEN old.offset ELSE <<>>,
         total_objects |-> IF "total_objects" \in old.keys THEN old.total_objects ELSE 0,
         objects       |-> <<>>,
         buildings     |-> found.buildings,
         surfaces      |-> EnrichSurfaces(IF "objects" \in old.keys THEN old.objects ELSE <<>>,
                                          found.map)]

\* the metadata file of a text run on the document
TextRunMetadata(document) ==
    LET r == CenterCoordinates(TextParse(document))
    IN  MetadataFile(ObjMetadata(r.centered, r.offset))

\* arg is the metadata file before the first run, ret the files the runs wrote
InitEnrich ==
    /\ pc = "enrich_start"
    /\ doc \in {d \in TextDocuments : TextParse(d) # <<>>}
    /\ arg = TextRunMetadata(doc)
    /\ ret = <<>>
    /\ input = "ok"
    /\ PipeIdle
    /\ ServerIdle

\* one run of the script on GML_FILE and METADATA_FILE
EnrichRun ==
    /\ pc = "enrich_start"
    /\ ret' = <<Enrich(doc, arg)>>
    /\ pc' = "enrich_once"
    /\ UNCHANGED <<serverVars, runVars, arg, doc, textVars, glbVars, offset, metadata, next>>

\* a second run: METADATA_FILE is the OUTPUT_FILE of the first
EnrichAgainRun ==
    /\ pc = "enrich_once"
    /\ ret' = Append(ret, Enrich(doc, ret[1]))
    /\ pc' = "enrich_twice"
    /\ UNCHANGED <<serverVars, runVars, arg, doc, textVars, glbVars, offset, metadata, next>>

NextEnrich == EnrichRun \/ EnrichAgainRun

SpecEnrich == InitEnrich /\ [][NextEnrich]_vars

-----------------------------------------------------------------------------
(* C21 *)

\* C21 as stated: the enriched file still has every entry of the original
\* 'objects' mapping under 'objects', with its element_type, polygon_count
\* and metadata unchanged; the entries of surfaces carry a buildingId in
\* addition; a top-level 'buildings' mapping is there; offset and
\* total_objects are unchanged.
C21_EnrichmentIsPureMerge ==
    pc = "enrich_once" =>
        /\ "buildings" \in ret[1].keys
        /\ ret[1].offset = arg.offset
        /\ ret[1].total_objects = arg.total_objects
        /\ "objects" \in ret[1].keys
        /\ \A i \in DOMAIN arg.objects :
              LET id  == arg.objects[i].key
                  old == arg.objects[i].val
              IN  /\ DictHas(ret[1].objects, id)
                  /\ DictGet(ret[1].objects, id).element_type = old.element_type
                  /\ DictGet(ret[1].objects, id).polygon_count = old.polygon_count
                  /\ DictGet(ret[1].objects, id).metadata = old.metadata
                  /\ old.element_type \in ENRICH_SURFACE_TYPES =>
                        "buildingId" \in DOMAIN DictGet(ret[1].objects, id)

-----------------------------------------------------------------------------
(* C30 *)

\* C30 as stated: the file after two runs is the file after one run, and the
\* second run keeps every surface entry and every building entry.
C30_EnrichmentIdempotent ==
    pc = "enrich_twice" =>
        /\ ret[2].buildings = ret[1].buildings
        /\ DictKeys(ret[2].surfaces) = DictKeys(ret[1].surfaces)
        /\ ret[2] = ret[1]

-----------------------------------------------------------------------------
(* server.py : the upload and cleanup service *)

\* a request of a handler thread h is the record requests[h]:
\*   kind       "upload", "cleanup" (cleanup/<id>) or "cleanup_all"
\*   pc         the statement the thread is at, "idle" once it has answered
\*   session_id the session the thread works on
\*   outcome    upload: how the child process of run_conversion ended
\*   success    upload: what run_conversion returned
\*   status     the HTTP status of the answer, 0 until there is one
\*   todo       cleanup_all: list(active_models.keys()), the ids not yet done
\*   count      cleanup_all: count
\* Statements of different threads interleave; a statement that touches the
\* dict or the file system is one step.

\* request.files of an upload: the file part and its client-side name, a
\* sequence of pieces as in the paths above
UploadFiles ==
    {[has_file |-> FALSE, filename |-> <<>>],
     [has_file |-> TRUE,  filename |-> <<>>],
     [has_file |-> TRUE,  filename |-> <<"city", ".txt">>],
     [has_file |-> TRUE,  filename |-> <<"city", ".gml">>],
     [has_file |-> TRUE,  filename |-> <<"sub", "/", "city", ".gml">>]}

\* the three checks that answer 400
AllowedUpload(f) ==
    /\ f.has_file
    /\ f.filename # <<>>
    /\ f.filename[Len(f.filename)] \in {".gml", ".xml"}

\* file.save(UPLOAD_DIR / f"{session_id}_{file.filename}") raises when the
\* name has a directory part: uploads/<id>_sub does not exist
SaveRaises(filename) == "/" \in Range(filename)

FileStates == {"missing", "empty", "written"}

\* what the child process of run_conversion can leave behind.  The service
\* takes nothing about the child for granted: it checks the exit status and
\* then the artifacts
ChildRuns ==
    {[outcome |-> "no_script", glb |-> "missing", metadata |-> "missing"]}
        \cup [outcome : {"timeout", "exit1", "exit0"}, glb : FileStates,
              metadata : FileStates]

\* run_conversion: the bool it returns
RunConversion(run) ==
    IF run.outcome = "no_script" THEN FALSE
    ELSE IF run.outcome = "timeout" THEN FALSE
    ELSE IF run.outcome # "exit0" THEN FALSE
    ELSE IF run.glb = "missing" THEN FALSE
    ELSE IF run.metadata = "missing" THEN FALSE
    ELSE TRUE

Busy(h) == requests[h].pc # "idle"

\* a request reaches handler h
Arrives(h) ==
    /\ ~Busy(h)
    /\ overlapped' = (overlapped \/ \E g \in Handlers \ {h} : Busy(g))

\* list(active_models.keys()), here in the order of the ids
RECURSIVE KeysList(_)
KeysList(S) ==
    IF S = {} THEN <<>> ELSE <<SetMin(S)>> \o KeysList(S \ {SetMin(S)})

\* upload_gml: one of the 400 answers
UploadRejected(h) ==
    /\ Arrives(h)
    /\ \E f \in UploadFiles : ~AllowedUpload(f)
    /\ requests' = [requests EXCEPT ![h] =
                       [NoRequest EXCEPT !.kind = "upload", !.status = 400]]
    /\ UNCHANGED <<pipeVars, active_models, temp_dir, upload_dir, next_session, cleaned>>

\* upload_gml: the session directory is made, file.save raises and the
\* handler's "except Exception" answers 500
UploadSaveFails(h) ==
    /\ Arrives(h)
    /\ next_session <= MaxSessions
    /\ \E f \in UploadFiles : AllowedUpload(f) /\ SaveRaises(f.filename)
    /\ temp_dir' = [temp_dir EXCEPT ![next_session].exists = TRUE]
    /\ next_session' = next_session + 1
    /\ requests' = [requests EXCEPT ![h] =
                       [NoRequest EXCEPT !.kind = "upload", !.session_id = next_session,
                                         !.status = 500]]
    /\ UNCHANGED <<pipeVars, active_models, upload_dir, cleaned>>

\* upload_gml up to the call of run_conversion
UploadSaved(h) ==
    /\ Arrives(h)
    /\ next_session <= MaxSessions
    /\ \E f \in UploadFiles : AllowedUpload(f) /\ ~SaveRaises(f.filename)
    /\ temp_dir' = [temp_dir EXCEPT ![next_session].exists = TRUE]
    /\ upload_dir' = upload_dir \cup {next_session}
    /\ next_session' = next_session + 1
    /\ requests' = [requests EXCEPT ![h] =
                       [NoRequest EXCEPT !.kind = "upload", !.session_id = next_session,
                                         !.pc = "convert"]]
    /\ UNCHANGED <<pipeVars, active_models, cleaned>>

\* run_conversion: the child runs and leaves its files in the session
\* directory
UploadConvert(h) ==
    /\ requests[h].pc = "convert"
    /\ \E run \in ChildRuns :
          /\ temp_dir' = [temp_dir EXCEPT ![requests[h].session_id] =
                             [exists |-> TRUE, glb |-> run.glb, metadata |-> run.metadata]]
          /\ requests' = [requests EXCEPT ![h].outcome = run.outcome,
                                          ![h].success = RunConversion(run),
                                          ![h].pc = "finish"]
    /\ UNCHANGED <<pipeVars, active_models, upload_dir, next_session, overlapped, cleaned>>

\* an "if not success" branch that forgets the saved upload
UploadFailsKeepsUpload(h) ==
    /\ requests[h].pc = "finish"
    /\ ~requests[h].success
    /\ temp_dir' = [temp_dir EXCEPT ![requests[h].session_id] = NoDir]
    /\ requests' = [requests EXCEPT ![h].status = 500, ![h].pc = "idle"]
    /\ UNCHANGED <<pipeVars, active_models, upload_dir, next_session, overlapped, cleaned>>

\* upload_gml, "if not success": rmtree, unlink, 500
UploadFails(h) ==
    /\ requests[h].pc = "finish"
    /\ ~requests[h].success
    /\ temp_dir' = [temp_dir EXCEPT ![requests[h].session_id] = NoDir]
    /\ upload_dir' = upload_dir \ {requests[h].session_id}
    /\ requests' = [requests EXCEPT ![h].status = 500, ![h].pc = "idle"]
    /\ UNCHANGED <<pipeVars, active_models, next_session, overlapped, cleaned>>

\* upload_gml: active_models[session_id] = {...}, 200
UploadRegisters(h) ==
    /\ requests[h].pc = "finish"
    /\ requests[h].success
    /\ active_models' = active_models \cup {requests[h].session_id}
    /\ requests' = [requests EXCEPT ![h].status = 200, ![h].pc = "idle"]
    /\ UNCHANGED <<pipeVars, temp_dir, upload_dir, next_session, overlapped, cleaned>>

\* cleanup_session: "if session_id not in active_models", 404
CleanupUnknown(h) ==
    /\ Arrives(h)
    /\ \E id \in SessionIds \ active_models :
          requests' = [requests EXCEPT ![h] =
                          [NoRequest EXCEPT !.kind = "cleanup", !.session_id = id,
                                            !.status = 404]]
    /\ UNCHANGED <<pipeVars, active_models, temp_dir, upload_dir, next_session, cleaned>>

\* cleanup_session: the session is in active_models
CleanupFound(h) ==
    /\ Arrives(h)
    /\ \E id \in active_models :
          requests' = [requests EXCEPT ![h] =
                          [NoRequest EXCEPT !.kind = "cleanup", !.session_id = id,
                                            !.pc = "read"]]
    /\ UNCHANGED <<pipeVars, active_models, temp_dir, upload_dir, next_session, cleaned>>

\* cleanup_all: count = 0 and the snapshot of the keys
CleanupAllRequest(h) ==
    /\ Arrives(h)
    /\ LET todo == KeysList(active_models)
       IN  requests' = [requests EXCEPT ![h] =
               IF todo = <<>>
               THEN [NoRequest EXCEPT !.kind = "cleanup_all", !.status = 200]
               ELSE [NoRequest EXCEPT !.kind = "cleanup_all", !.todo = todo,
                                      !.session_id = Head(todo), !.pc = "read"]]
    /\ UNCHANGED <<pipeVars, active_models, temp_dir, upload_dir, next_session, cleaned>>

\* cleanup_all: the next pass of the loop, or the answer 200 with the count
NextInLoop(r) ==
    LET rest == Tail(r.todo)
    IN  IF rest = <<>>
        THEN [r EXCEPT !.todo = <<>>, !.pc = "idle", !.status = 200]
        ELSE [r EXCEPT !.todo = rest, !.session_id = Head(rest), !.pc = "read"]

\* a statement raised: cleanup_session answers 500, cleanup_all prints and
\* goes on with the next session
Raised(r) ==
    IF r.kind = "cleanup" THEN [r EXCEPT !.pc = "idle", !.status = 500]
    ELSE NextInLoop(r)

\* the del succeeded: cleanup_session answers 200, cleanup_all counts
Deleted(r) ==
    IF r.kind = "cleanup" THEN [r EXCEPT !.pc = "idle", !.status = 200]
    ELSE NextInLoop([r EXCEPT !.count = @ + 1])

\* session_info = active_models[session_id]
ReadSessionInfo(h) ==
    /\ requests[h].pc = "read"
    /\ requests' = [requests EXCEPT ![h] =
                       IF requests[h].session_id \in active_models
                       THEN [requests[h] EXCEPT !.pc = "dir_exists"]
                       ELSE Raised(requests[h])]
    /\ UNCHANGED <<pipeVars, active_models, temp_dir, upload_dir, next_session,
                   overlapped, cleaned>>

\* if session_dir.exists():
SessionDirExists(h) ==
    /\ requests[h].pc = "dir_exists"
    /\ requests' = [requests EXCEPT ![h].pc =
                       IF temp_dir[requests[h].session_id].exists
                       THEN "rmtree" ELSE "gml_exists"]
    /\ UNCHANGED <<pipeVars, active_models, temp_dir, upload_dir, next_session,
                   overlapped, cleaned>>

\* shutil.rmtree(session_dir), which raises when the directory is gone
Rmtree(h) ==
    /\ requests[h].pc = "rmtree"
    /\ IF temp_dir[requests[h].session_id].exists
       THEN /\ temp_dir' = [temp_dir EXCEPT ![requests[h].session_id] = NoDir]
            /\ requests' = [requests EXCEPT ![h].pc = "gml_exists"]
       ELSE /\ temp_dir' = temp_dir
            /\ requests' = [requests EXCEPT ![h] = Raised(requests[h])]
    /\ UNCHANGED <<pipeVars, active_models, upload_dir, next_session, overlapped, cleaned>>

\* if gml_path.exists():
GmlPathExists(h) ==
    /\ requests[h].pc = "gml_exists"
    /\ requests' = [requests EXCEPT ![h].pc =
                       IF requests[h].session_id \in upload_dir THEN "unlink" ELSE "del"]
    /\ UNCHANGED <<pipeVars, active_models, temp_dir, upload_dir, next_session,
                   overlapped, cleaned>>

\* gml_path.unlink(), which raises when the file is gone
Unlink(h) ==
    /\ requests[h].pc = "unlink"
    /\ IF requests[h].session_id \in upload_dir
       THEN /\ upload_dir' = upload_dir \ {requests[h].session_id}
            /\ requests' = [requests EXCEPT ![h].pc = "del"]
       ELSE /\ upload_dir' = upload_dir
            /\ requests' = [requests EXCEPT ![h] = Raised(requests[h])]
    /\ UNCHANGED <<pipeVars, active_models, temp_dir, next_session, overlapped, cleaned>>

\* del active_models[session_id], which raises when the key is gone; then the
\* answer 200 of cleanup_session or count += 1 of cleanup_all
DelSession(h) ==
    /\ requests[h].pc = "del"
    /\ IF requests[h].session_id \in active_models
       THEN /\ active_models' = active_models \ {requests[h].session_id}
            /\ cleaned' = [cleaned EXCEPT ![requests[h].session_id] = @ + 1]
            /\ requests' = [requests EXCEPT ![h] = Deleted(requests[h])]
       ELSE /\ active_models' = active_models
            /\ cleaned' = cleaned
            /\ requests' = [requests EXCEPT ![h] = Raised(requests[h])]
    /\ UNCHANGED <<pipeVars, temp_dir, upload_dir, next_session, overlapped>>

InitServer ==
    /\ pc = "serving"
    /\ PureIdle
    /\ doc = <<>>
    /\ input = "ok"
    /\ PipeIdle
    /\ ServerIdle

NextServer ==
    \E h \in Handlers :
        \/ UploadRejected(h)
        \/ UploadSaveFails(h)
        \/ UploadSaved(h)
        \/ UploadConvert(h)
        \/ UploadFails(h)
        \/ UploadRegisters(h)
        \/ CleanupUnknown(h)
        \/ CleanupFound(h)
        \/ CleanupAllRequest(h)
        \/ ReadSessionInfo(h)
        \/ SessionDirExists(h)
        \/ Rmtree(h)
        \/ GmlPathExists(h)
        \/ Unlink(h)
        \/ DelSession(h)

SpecServer == InitServer /\ [][NextServer]_vars

-----------------------------------------------------------------------------
(* C22 *)

\* the session id is put into active_models in this step
Registered(id) == id \in active_models' /\ id \notin active_models

\* C22 as stated: run_conversion returns success only if the child exited
\* with status 0 and model.glb and model_metadata.json are then in the session
\* directory and not empty; a session is registered and answered with 200
\* only by an upload whose run_conversion returned success.
C22_SuccessMeansArtifacts ==
    /\ [][\A h \in Handlers :
             (requests[h].pc = "convert" /\ requests'[h].success) =>
                 /\ requests'[h].outcome = "exit0"
                 /\ temp_dir'[requests[h].session_id].exists
                 /\ temp_dir'[requests[h].session_id].glb = "written"
                 /\ temp_dir'[requests[h].session_id].metadata = "written"]_vars
    /\ [][\A id \in SessionIds :
             Registered(id) =>
                 \E h \in Handlers :
                     /\ requests[h].kind = "upload"
                     /\ requests[h].session_id = id
                     /\ requests[h].success
                     /\ requests'[h].status = 200]_vars
    /\ [](\A h \in Handlers :
             (requests[h].kind = "upload" /\ requests[h].status = 200) =>
                 requests[h].success)

-----------------------------------------------------------------------------
(* C23 *)

\* nothing of the session is left: no entry, no directory, no upload
SessionGone(id) ==
    /\ id \notin active_models
    /\ temp_dir[id] = NoDir
    /\ id \notin upload_dir

\* the upload of handler h has ended after run_conversion returned failure
UploadFailed(h) ==
    /\ requests[h].kind = "upload"
    /\ requests[h].pc = "idle"
    /\ requests[h].outcome # "none"
    /\ ~requests[h].success

\* C23: run_conversion returns failure for a missing script, a timeout, an
\* exit status other than 0 and a missing artifact; an upload that ends after
\* such a failure has answered 500 and nothing of its session is left then
\* or later, whatever the child had written; no session is registered by
\* anything but an upload whose conversion succeeded.
C23_FailedConversionLeavesNothing ==
    /\ [](\A run \in ChildRuns :
             (run.outcome # "exit0" \/ run.glb = "missing" \/ run.metadata = "missing")
                 => ~RunConversion(run))
    /\ [](\A h \in Handlers :
             UploadFailed(h) =>
                 requests[h].status = 500 /\ SessionGone(requests[h].session_id))
    /\ [][\A h \in Handlers :
             (requests[h].pc = "finish" /\ ~requests[h].success
                  /\ requests'[h].pc = "idle") =>
                 /\ requests'[h].status = 500
                 /\ requests[h].session_id \notin active_models'
                 /\ temp_dir'[requests[h].session_id] = NoDir
                 /\ requests[h].session_id \notin upload_dir']_vars
    /\ [][\A id \in SessionIds :
             Registered(id) =>
                 \E h \in Handlers : requests[h].session_id = id /\ requests[h].success]_vars

\* two uploads have failed, one on a timeout and one on a missing artifact
\* after exit status 0
C23_Witness ==
    \E h, g \in Handlers :
        /\ UploadFailed(h) /\ requests[h].outcome = "timeout"
        /\ UploadFailed(g) /\ requests[g].outcome = "exit0"
        /\ requests[h].status = 500 /\ requests[g].status = 500
        /\ SessionGone(requests[h].session_id)
        /\ SessionGone(requests[g].session_id)

-----------------------------------------------------------------------------
(* C28 *)

\* every request has been answered
Quiet == \A h \in Handlers : ~Busy(h)

\* C28 as stated: when the requests so far were handled one at a time and all
\* are answered, a session directory and a saved upload exist exactly for the
\* ids in active_models; a cleanup that answered 200 has removed directory,
\* upload and entry; a cleanup that answers 404 changes nothing.
C28_StoreMatchesRegistry ==
    /\ []((Quiet /\ ~overlapped) =>
             \A id \in SessionIds :
                 /\ temp_dir[id].exists <=> id \in active_models
                 /\ id \in upload_dir <=> id \in active_models)
    /\ []((Quiet /\ ~overlapped) =>
             \A h \in Handlers :
                 (requests[h].kind = "cleanup" /\ requests[h].status = 200) =>
                     SessionGone(requests[h].session_id))
    /\ [][\A h \in Handlers :
             (requests'[h] # requests[h] /\ requests'[h].kind = "cleanup"
                  /\ requests'[h].status = 404) =>
                 UNCHANGED <<active_models, temp_dir, upload_dir>>]_vars

-----------------------------------------------------------------------------
(* C29 *)

\* C29 as stated: however the statements of concurrent cleanup requests
\* interleave, no cleanup request answers 500, a session is reported or
\* counted as cleaned at most once, and once the requests are answered a
\* session that a cleanup worked on is gone with its directory and upload.
C29_ConcurrentCleanupNeverFails ==
    /\ \A h \in Handlers :
          requests[h].kind \in {"cleanup", "cleanup_all"} => requests[h].status # 500
    /\ \A id \in SessionIds : cleaned[id] <= 1
    /\ Quiet =>
          \A h \in Handlers :
              (requests[h].kind = "cleanup" /\ requests[h].status # 404) =>
                  SessionGone(requests[h].session_id)

====
